---- MODULE Spec2Model ----
(***************************************************************************)
(* A model of the MRISC32 simulator core: the simulated RAM (ram_t), the   *)
(* syscall trap (syscalls_t) and the interpreter loop of                   *)
(* cpu_simple_t::run.                                                      *)
(*                                                                         *)
(* A uint32_t is modelled as the pair <<hi, lo>> of its two 16-bit halves  *)
(* (TLC's integers are 32-bit signed), and a uint64_t of ram_t as four     *)
(* 16-bit limbs, least significant first.  All arithmetic on them wraps    *)
(* exactly as the C++ unsigned arithmetic does.                            *)
(***************************************************************************)
EXTENDS Integers, Sequences, FiniteSets, TLC

VARIABLES
    \* ---- ram_t
    m_size,                 \* ram_t::m_size (uint64_t, four limbs)
    host_be,                \* the build's byte order: TRUE = RAM_BIG_ENDIAN
    mem,                    \* ram_t::m_memory: address -> non-zero byte
    ram_ret,                \* result of the last direct ram_t call (SpecRam)
    \* ---- cpu_t / cpu_simple_t
    m_regs,                 \* scalar registers 0..32
    m_vregs,                \* vector registers: <<register, element>> -> non-zero word
    m_fetched_instr_count,
    m_vector_loop_count,
    m_total_cycle_count,
    m_terminate_requested,
    m_syscalls,             \* [terminate, exit_code] of syscalls_t
    \* ---- locals of cpu_simple_t::run
    phase,                  \* position inside run
    max_cycles,             \* argument of run
    decode,                 \* decode_t decode
    vector,                 \* vector_state_t vector
    next_pc,                \* uint32_t next_pc
    pc,                     \* const uint32_t pc of the IF/ID block
    iword,                  \* const uint32_t iword of the IF/ID block
    vec_idx,                \* loop variable of the vector loop
    lane,                   \* per-lane locals: vector_idx_a, src_a, src_b, src_c
    wb_lanes,               \* history: lanes written back by this instruction
    cycles_at_fetch,        \* history: m_total_cycle_count at the last fetch
    vector_lanes_run,       \* history: lanes executed by vector instructions in this run
    exit_trap_args,         \* history: R1 at each EXIT trap taken in this run
    ret,                    \* value returned by run
    \* ---- the EX stage on its own (SpecAlu)
    alu,                    \* operands, operation and ex_result of the last EX
    \* ---- the debug trace of cpu_t on its own (SpecTrace)
    tracer,                 \* trace flags, buffer, file and the lanes traced
    \* ---- perf_symbols_t on its own (SpecPerf)
    perf                    \* symbol table, cached index and the last add_ref

ramvars == <<m_size, host_be, mem, ram_ret>>
cpuvars == <<m_regs, m_vregs, m_fetched_instr_count, m_vector_loop_count,
             m_total_cycle_count, m_terminate_requested, m_syscalls>>
runvars == <<phase, max_cycles, decode, vector, next_pc, pc, iword, vec_idx,
             lane, wb_lanes, cycles_at_fetch, vector_lanes_run,
             exit_trap_args, ret>>
unitvars == <<alu, tracer, perf>>
vars == <<ramvars, cpuvars, runvars, unitvars>>

----------------------------------------------------------------------------
(* 32-bit words as pairs of 16-bit halves.                                 *)

H16 == 2 ^ 16

Hi(w) == w[1]
Lo(w) == w[2]

\* The word of a small natural number (n < 2^31).
U32(n) == <<(n \div H16) % H16, n % H16>>

ZeroW == <<0, 0>>
OnesW == <<65535, 65535>>

\* a + b modulo 2^32.
add32(a, b) ==
    LET s == Lo(a) + Lo(b)
    IN  <<(Hi(a) + Hi(b) + (s \div H16)) % H16, s % H16>>

\* ~a.
not32(a) == <<65535 - Hi(a), 65535 - Lo(a)>>


\* a * k modulo 2^32 for a small factor k (1, 2, 4 or 8).
MulSmall(a, k) ==
    LET l == Lo(a) * k
    IN  <<(Hi(a) * k + (l \div H16)) % H16, l % H16>>

\* Bits [pos+n-1 : pos] of a 16-bit number.
Bits16(x, pos, n) == (x \div (2 ^ pos)) % (2 ^ n)

\* Bits [pos+n-1 : pos] of a word, for a field that lies inside one half.
Field(w, pos, n) ==
    IF pos >= 16 THEN Bits16(Hi(w), pos - 16, n) ELSE Bits16(Lo(w), pos, n)

RECURSIVE Or16(_, _, _)
Or16(x, y, n) ==
    IF n = 0 THEN 0
    ELSE (IF (x % 2 = 1) \/ (y % 2 = 1) THEN 1 ELSE 0)
         + 2 * Or16(x \div 2, y \div 2, n - 1)

RECURSIVE And16(_, _, _)
And16(x, y, n) ==
    IF n = 0 THEN 0
    ELSE (IF (x % 2 = 1) /\ (y % 2 = 1) THEN 1 ELSE 0)
         + 2 * And16(x \div 2, y \div 2, n - 1)

or32(a, b) == <<Or16(Hi(a), Hi(b), 16), Or16(Lo(a), Lo(b), 16)>>
and32(a, b) == <<And16(Hi(a), Hi(b), 16), And16(Lo(a), Lo(b), 16)>>

\* The four bytes of a word, least significant first.
ByteOf(w, k) ==
    CASE k = 0 -> Lo(w) % 256
      [] k = 1 -> Lo(w) \div 256
      [] k = 2 -> Hi(w) % 256
      [] k = 3 -> Hi(w) \div 256

WordOfBytes(b0, b1, b2, b3) == <<b3 * 256 + b2, b1 * 256 + b0>>

----------------------------------------------------------------------------
(* 64-bit values of ram_t as four 16-bit limbs, least significant first.   *)

U64ofW(w) == <<Lo(w), Hi(w), 0, 0>>

Add64(a, b) ==
    LET s0 == a[1] + b[1]
        s1 == a[2] + b[2] + (s0 \div H16)
        s2 == a[3] + b[3] + (s1 \div H16)
        s3 == a[4] + b[4] + (s2 \div H16)
    IN  <<s0 % H16, s1 % H16, s2 % H16, s3 % H16>>


Less64(a, b) ==
    \/ a[4] < b[4]
    \/ a[4] = b[4] /\ a[3] < b[3]
    \/ a[4] = b[4] /\ a[3] = b[3] /\ a[2] < b[2]
    \/ a[4] = b[4] /\ a[3] = b[3] /\ a[2] = b[2] /\ a[1] < b[1]

Leq64(a, b) == a = b \/ Less64(a, b)

----------------------------------------------------------------------------
(* ram_t (src/sim/ram.hpp).  m_memory is mmap'ed, hence zero-filled: mem   *)
(* holds the non-zero bytes only and every other byte of RAM reads 0.      *)

EmptyMem == [a \in {} |-> 0]

Peek(m, a) == IF a \in DOMAIN m THEN m[a] ELSE 0

Poke(m, a, b) ==
    IF b = 0
    THEN [x \in (DOMAIN m) \ {a} |-> m[x]]
    ELSE [x \in (DOMAIN m) \cup {a} |-> IF x = a THEN b ELSE m[x]]

AddrPlus(a, k) == add32(a, U32(k))

\* A build that never swaps, whatever the host's byte order.
convert_endianity32_never(x) == x

\* convert_endianity(uint32_t): the identity on a little-endian host, a byte
\* swap on a big-endian one.
convert_endianity32(x) ==
    IF host_be
    THEN WordOfBytes(ByteOf(x, 3), ByteOf(x, 2), ByteOf(x, 1), ByteOf(x, 0))
    ELSE x

\* convert_endianity(uint16_t), on a value below 2^16.
convert_endianity16(x) ==
    IF host_be THEN (x % 256) * 256 + (x \div 256) ELSE x

\* reinterpret_cast<uint32_t&>(m_memory[addr]) = x: the host lays the bytes
\* of x out in its own order.
NativeStore32(m, addr, x) ==
    LET b(k) == IF host_be THEN ByteOf(x, 3 - k) ELSE ByteOf(x, k)
    IN  Poke(Poke(Poke(Poke(m, addr, b(0)), AddrPlus(addr, 1), b(1)),
                  AddrPlus(addr, 2), b(2)), AddrPlus(addr, 3), b(3))

\* reinterpret_cast<const uint32_t&>(m_memory[addr]).
NativeLoad32(m, addr) ==
    LET b(k) == Peek(m, AddrPlus(addr, k))
    IN  IF host_be THEN WordOfBytes(b(3), b(2), b(1), b(0))
                   ELSE WordOfBytes(b(0), b(1), b(2), b(3))

NativeStore16(m, addr, x) ==
    LET b0 == IF host_be THEN x \div 256 ELSE x % 256
        b1 == IF host_be THEN x % 256 ELSE x \div 256
    IN  Poke(Poke(m, addr, b0), AddrPlus(addr, 1), b1)

NativeLoad16(m, addr) ==
    LET b0 == Peek(m, addr)
        b1 == Peek(m, AddrPlus(addr, 1))
    IN  IF host_be THEN b0 * 256 + b1 ELSE b1 * 256 + b0

\* bool valid_range(addr, size): both computed in 64 bits, size - 1 wraps.
valid_range(addr, size) ==
    LET addr_first == U64ofW(addr)
        \* + size - 1 modulo 2^64
        addr_last == Add64(Add64(addr_first, U64ofW(size)),
                           <<65535, 65535, 65535, 65535>>)
    IN  Less64(addr_first, m_size) /\ Less64(addr_last, m_size)

\* check_addr / check_align: TRUE when the check passes (nothing is thrown).
\* size is sizeof(uint8_t|uint16_t|uint32_t), which divides 2^16.
check_addr(addr, size) == valid_range(addr, U32(size))

check_align(addr, size) == Lo(addr) % size = 0

\* What a ram_t access yields: the exception thrown (or "none"), the value
\* loaded, and the memory as the access leaves it.
RamRes(f, v, m) == [fault |-> f, val |-> v, mem |-> m]

load8(m, addr) ==
    IF ~check_addr(addr, 1) THEN RamRes("bad_addr", ZeroW, m)
    ELSE RamRes("none", U32(Peek(m, addr)), m)

s8_as_u32(x) ==
    LET b == Lo(x) % 256
    IN  IF b >= 128 THEN <<65535, 65280 + b>> ELSE <<0, b>>

s16_as_u32(x) == IF Lo(x) >= 32768 THEN <<65535, Lo(x)>> ELSE <<0, Lo(x)>>

load8signed(m, addr) ==
    LET r == load8(m, addr)
    IN  IF r.fault # "none" THEN r ELSE RamRes("none", s8_as_u32(r.val), m)

store8(m, addr, value) ==
    IF ~check_addr(addr, 1) THEN RamRes("bad_addr", ZeroW, m)
    ELSE IF ~check_align(addr, 1) THEN RamRes("bad_align", ZeroW, m)
    ELSE RamRes("none", ZeroW, Poke(m, addr, Lo(value) % 256))

load16(m, addr) ==
    IF ~check_addr(addr, 2) THEN RamRes("bad_addr", ZeroW, m)
    ELSE IF ~check_align(addr, 2) THEN RamRes("bad_align", ZeroW, m)
    ELSE RamRes("none", <<0, convert_endianity16(NativeLoad16(m, addr))>>, m)

load16signed(m, addr) ==
    LET r == load16(m, addr)
    IN  IF r.fault # "none" THEN r ELSE RamRes("none", s16_as_u32(r.val), m)

store16(m, addr, value) ==
    IF ~check_addr(addr, 2) THEN RamRes("bad_addr", ZeroW, m)
    ELSE IF ~check_align(addr, 2) THEN RamRes("bad_align", ZeroW, m)
    ELSE RamRes("none", ZeroW,
                NativeStore16(m, addr, convert_endianity16(Lo(value))))

load32(m, addr) ==
    IF ~check_addr(addr, 4) THEN RamRes("bad_addr", ZeroW, m)
    ELSE IF ~check_align(addr, 4) THEN RamRes("bad_align", ZeroW, m)
    ELSE RamRes("none", convert_endianity32(NativeLoad32(m, addr)), m)

\* A store32 that writes before it checks the alignment.
store32_write_first(m, addr, value) ==
    IF ~check_addr(addr, 4) THEN RamRes("bad_addr", ZeroW, m)
    ELSE LET m1 == NativeStore32(m, addr, convert_endianity32(value))
         IN  IF ~check_align(addr, 4) THEN RamRes("bad_align", ZeroW, m1)
             ELSE RamRes("none", ZeroW, m1)

store32(m, addr, value) ==
    IF ~check_addr(addr, 4) THEN RamRes("bad_addr", ZeroW, m)
    ELSE IF ~check_align(addr, 4) THEN RamRes("bad_align", ZeroW, m)
    ELSE RamRes("none", ZeroW,
                NativeStore32(m, addr, convert_endianity32(value)))


----------------------------------------------------------------------------
(* Register configuration and operation codes (src/sim/cpu.hpp).           *)

NUM_REGS == 33
LOG2_NUM_VECTOR_ELEMENTS == 4
NUM_VECTOR_ELEMENTS == 2 ^ LOG2_NUM_VECTOR_ELEMENTS

REG_Z == 0
REG_LR == 30
REG_VL == 31
REG_PC == 32

EX_OP_LDI == 1
EX_OP_ADDPC == 2
EX_OP_ADDPCHI == 3
EX_OP_AND == 16
EX_OP_OR == 17
EX_OP_EBF == 19
EX_OP_MKBF == 21
EX_OP_ADD == 22
EX_OP_SUB == 23
EX_OP_DIV == 40
EX_OP_DIVU == 41
EX_OP_REM == 42
EX_OP_REMU == 43
EX_OP_ADDS == 96
EX_OP_ADDSU == 97
EX_OP_SUBS == 102
EX_OP_SUBSU == 103
EX_OP_CRC32C == 638

MEM_OP_NONE == 0
MEM_OP_LOAD8 == 1
MEM_OP_LOAD16 == 2
MEM_OP_LOAD32 == 3
MEM_OP_LOADU8 == 5
MEM_OP_LOADU16 == 6
MEM_OP_LDEA == 7
MEM_OP_STORE8 == 9
MEM_OP_STORE16 == 10
MEM_OP_STORE32 == 11

PACKED_BYTE == 1
PACKED_HALF_WORD == 2

----------------------------------------------------------------------------
(* The decoder: the IF/ID block of cpu_simple_t::run.  A mask test of the  *)
(* source, (iword & mask) == value, is written as a test of the fields     *)
(* the mask selects.                                                       *)

Opcode(iw) == Field(iw, 26, 6)          \* iword >> 26

\* (iword & 0x00004000u) ? 0xffff8000u | low15 : low15, and the I15HL form.
decode_imm15(iw) ==
    LET op_high == Opcode(iw)
        low15 == Lo(iw) % 32768
        low14 == Lo(iw) % 16384
    IN  IF op_high >= 1 /\ op_high <= 15
        THEN IF Field(iw, 14, 1) = 1 THEN <<65535, 32768 + low15>>
                                     ELSE <<0, low15>>
        ELSE IF Field(iw, 14, 1) = 1
             THEN <<((low14 * 4) % H16) + (IF Lo(iw) % 2 = 1 THEN 3 ELSE 0),
                    IF Lo(iw) % 2 = 1 THEN 65535 ELSE 0>>
             ELSE IF Field(iw, 13, 1) = 1 THEN <<65535, 49152 + low14>>
                                          ELSE <<0, low14>>

\* ((iword & 0x0003ffff) << 2) | ((iword & 0x00020000) ? 0xfff00000 : 0)
decode_imm18(iw) ==
    LET v == ((Hi(iw) % 4) * H16 + Lo(iw)) * 4
    IN  <<(v \div H16) + (IF Field(iw, 17, 1) = 1 THEN 65520 ELSE 0), v % H16>>

decode_imm21(iw) ==
    LET opc == Opcode(iw)
        v21 == (Hi(iw) % 32) * H16 + Lo(iw)
        v20 == (Hi(iw) % 16) * H16 + Lo(iw)
    IN  IF opc >= 48 /\ opc <= 52
        THEN \* I21X4
             <<((v21 * 4) \div H16) + (IF Field(iw, 20, 1) = 1 THEN 65408 ELSE 0),
               (v21 * 4) % H16>>
        ELSE IF opc = 53
        THEN \* I21H: (iword & 0x1fffff) << 11
             <<(v21 \div 32) % H16, (v21 % 32) * 2048>>
        ELSE \* I21HL
             IF Field(iw, 20, 1) = 1
             THEN <<(v20 \div 16) % H16,
                    (v20 % 16) * 4096 + (IF Lo(iw) % 2 = 1 THEN 4095 ELSE 0)>>
             ELSE <<(Hi(iw) % 16) + (IF Field(iw, 19, 1) = 1 THEN 65520 ELSE 0),
                    Lo(iw)>>

\* An AGU that never scales the index.
index_scale_factor_none(packed_mode) == 2 ^ 0

index_scale_factor(packed_mode) == 2 ^ packed_mode

\* A vector length that folding does not halve.
actual_vector_len_not_halved(requested_length, num_elements, fold) ==
    IF Hi(requested_length) = 0 /\ Lo(requested_length) < num_elements
    THEN Lo(requested_length) ELSE num_elements

\* std::min(requested_length, num_elements), halved when folding.
actual_vector_len(requested_length, num_elements, fold) ==
    LET l == IF Hi(requested_length) = 0 /\ Lo(requested_length) < num_elements
             THEN Lo(requested_length) ELSE num_elements
    IN  IF fold THEN l \div 2 ELSE l

op_class_B(iw) == Opcode(iw) = 0 /\ Field(iw, 2, 5) = 31
op_class_A(iw) == Opcode(iw) = 0 /\ ~op_class_B(iw)
op_class_E(iw) == Opcode(iw) = 55
op_class_D(iw) == Field(iw, 29, 3) = 6 /\ ~op_class_E(iw)
op_class_C(iw) == ~op_class_A(iw) /\ ~op_class_B(iw) /\ ~op_class_D(iw)
                  /\ ~op_class_E(iw)

\* (iword >> 14) & vec_mask
vector_mode(iw) ==
    LET m == Field(iw, 14, 2)
    IN  IF op_class_A(iw) THEN m
        ELSE IF op_class_B(iw) \/ op_class_C(iw) THEN (m \div 2) * 2
        ELSE 0

is_vector_op(iw) == vector_mode(iw) # 0
is_folding_vector_op(iw) == vector_mode(iw) = 1

packed_mode(iw) ==
    IF op_class_A(iw) \/ op_class_B(iw) THEN Field(iw, 7, 2) ELSE 0

reg1(iw) == Field(iw, 21, 5)
reg2(iw) == Field(iw, 16, 5)
reg3(iw) == Field(iw, 9, 5)

is_bcc(iw) == Opcode(iw) = 55
is_j(iw) == Field(iw, 27, 5) = 24
is_subroutine_branch(iw) == Opcode(iw) = 49
is_branch(iw) == is_bcc(iw) \/ is_j(iw)

is_ldx(iw) == Opcode(iw) = 0 /\ Field(iw, 3, 4) = 0 /\ Field(iw, 0, 3) # 0
is_ld(iw) == Field(iw, 29, 3) = 0 /\ Field(iw, 26, 3) # 0
is_ldwpc(iw) == Opcode(iw) = 50
is_mem_load(iw) == is_ldx(iw) \/ is_ld(iw) \/ is_ldwpc(iw)
is_stx(iw) == Opcode(iw) = 0 /\ Field(iw, 3, 4) = 1
is_st(iw) == Field(iw, 29, 3) = 1
is_stwpc(iw) == Opcode(iw) = 51
is_mem_store(iw) == is_stx(iw) \/ is_st(iw) \/ is_stwpc(iw)
is_mem_op(iw) == is_mem_load(iw) \/ is_mem_store(iw)

is_addpc_addpchi(iw) == Field(iw, 27, 5) = 26

reg1_is_dst(iw) == ~(is_mem_store(iw) \/ is_branch(iw))

src_reg_a_no(iw) ==
    IF is_ldwpc(iw) \/ is_stwpc(iw) \/ is_addpc_addpchi(iw) THEN REG_PC
    ELSE reg2(iw)

\* A decoder that names the PC where the source names REG_Z.
dst_reg_no_pc(iw) == IF reg1_is_dst(iw) THEN reg1(iw) ELSE REG_PC

dst_reg_no(iw) == IF reg1_is_dst(iw) THEN reg1(iw) ELSE REG_Z

ex_op_of(iw) ==
    IF op_class_A(iw) /\ Field(iw, 4, 5) # 0 THEN Field(iw, 0, 7)
    ELSE IF op_class_B(iw) THEN Field(iw, 9, 6) * 256 + Field(iw, 0, 7)
    ELSE IF op_class_C(iw) /\ Field(iw, 30, 2) # 0 THEN Opcode(iw)
    ELSE IF op_class_D(iw) /\ Field(iw, 26, 3) = 4 THEN EX_OP_ADDPC
    ELSE IF op_class_D(iw) /\ Field(iw, 26, 3) = 5 THEN EX_OP_ADDPCHI
    ELSE IF op_class_D(iw) /\ Field(iw, 26, 3) = 6 THEN EX_OP_LDI
    ELSE EX_OP_OR

mem_op_of(iw) ==
    IF ~is_mem_op(iw) THEN MEM_OP_NONE
    ELSE IF is_ldwpc(iw) THEN MEM_OP_LOAD32
    ELSE IF is_stwpc(iw) THEN MEM_OP_STORE32
    ELSE IF op_class_A(iw) THEN Field(iw, 0, 7)
    ELSE Opcode(iw)

\* The decoder with bit 1 of the vector mode selecting a vector operand B.
reg3_is_vector_bit1(iw) == vector_mode(iw) \div 2 = 1

\* reg3_is_vector = ((vector_mode & 1u) != 0u)
reg3_is_vector(iw) == vector_mode(iw) % 2 = 1

Reg(n, v) == [no |-> n, is_vector |-> v]

\* The decode_t handed to the EX stage.
Decode(iw) ==
    [src_reg_a |-> Reg(src_reg_a_no(iw), is_vector_op(iw) /\ ~is_mem_op(iw)),
     src_reg_b |-> Reg(reg3(iw), reg3_is_vector(iw)),
     src_reg_c |-> Reg(reg1(iw), is_vector_op(iw)),
     dst_reg |-> Reg(dst_reg_no(iw), is_vector_op(iw)),
     src_imm |-> IF op_class_C(iw) THEN decode_imm15(iw) ELSE decode_imm21(iw),
     src_b_is_imm |-> op_class_C(iw) \/ op_class_D(iw),
     src_b_is_stride |-> is_vector_op(iw) /\ is_mem_op(iw) /\ ~reg3_is_vector(iw),
     ex_op |-> ex_op_of(iw),
     packed_mode |-> packed_mode(iw),
     mem_op |-> mem_op_of(iw)]

\* decode_t() and vector_state_t(): value-initialised.
Decode0 ==
    [src_reg_a |-> Reg(0, FALSE), src_reg_b |-> Reg(0, FALSE),
     src_reg_c |-> Reg(0, FALSE), dst_reg |-> Reg(0, FALSE),
     src_imm |-> ZeroW, src_b_is_imm |-> FALSE, src_b_is_stride |-> FALSE,
     ex_op |-> 0, packed_mode |-> 0, mem_op |-> 0]

Vector0 ==
    [vector_len |-> 0, stride |-> ZeroW, addr_offset |-> ZeroW,
     is_vector_op |-> FALSE, folding |-> FALSE]

\* == VECTOR STATE INITIALIZATION ==
VectorInit(v, iw, regs) ==
    IF is_vector_op(iw)
    THEN [vector_len |-> actual_vector_len(regs[REG_VL], NUM_VECTOR_ELEMENTS,
                                           is_folding_vector_op(iw)),
          stride |-> IF op_class_C(iw) THEN decode_imm15(iw) ELSE regs[reg3(iw)],
          addr_offset |-> ZeroW,
          is_vector_op |-> TRUE,
          folding |-> is_folding_vector_op(iw)]
    ELSE [v EXCEPT !.is_vector_op = FALSE]

\* A condition unit whose bs and bns test the sign bit, not all-ones.
branch_taken_sign_for_set(iw, regs) ==
    LET v == regs[reg1(iw)]
        condition == Field(iw, 18, 3)
    IN  CASE condition = 0 -> v = ZeroW
          [] condition = 1 -> v # ZeroW
          [] condition \in {2, 4} -> Hi(v) >= 32768
          [] condition \in {3, 5} -> Hi(v) < 32768
          [] condition = 6 -> Hi(v) >= 32768 \/ v = ZeroW
          [] condition = 7 -> Hi(v) < 32768 /\ v # ZeroW

\* == BRANCH HANDLING ==: the condition of b[cc].
branch_taken(iw, regs) ==
    LET v == regs[reg1(iw)]
        condition == Field(iw, 18, 3)
    IN  CASE condition = 0 -> v = ZeroW
          [] condition = 1 -> v # ZeroW
          [] condition = 2 -> v = OnesW
          [] condition = 3 -> v # OnesW
          [] condition = 4 -> Hi(v) >= 32768
          [] condition = 5 -> Hi(v) < 32768
          [] condition = 6 -> Hi(v) >= 32768 \/ v = ZeroW
          [] condition = 7 -> Hi(v) < 32768 /\ v # ZeroW

\* A branch unit that writes LR before it reads the base register.
NextPc_after_link(iw, p, regs) ==
    IF is_bcc(iw)
    THEN IF branch_taken(iw, regs) THEN add32(p, decode_imm18(iw))
                                   ELSE add32(p, U32(4))
    ELSE IF is_j(iw)
    THEN add32(IF reg1(iw) = 31 THEN p
               ELSE IF is_subroutine_branch(iw) /\ reg1(iw) = REG_LR
                    THEN add32(p, U32(4))
                    ELSE regs[reg1(iw)],
               decode_imm21(iw))
    ELSE add32(p, U32(4))

NextPc(iw, p, regs) ==
    IF is_bcc(iw)
    THEN IF branch_taken(iw, regs) THEN add32(p, decode_imm18(iw))
                                   ELSE add32(p, U32(4))
    ELSE IF is_j(iw)
    THEN add32(IF reg1(iw) = 31 THEN p ELSE regs[reg1(iw)], decode_imm21(iw))
    ELSE add32(p, U32(4))

\* JL implicitly writes to LR.
LinkRegs(iw, p, regs) ==
    IF is_j(iw) /\ is_subroutine_branch(iw)
    THEN [regs EXCEPT ![REG_LR] = add32(p, U32(4))]
    ELSE regs


----------------------------------------------------------------------------
(* EX, MEM and the kernels they use.                                       *)

add16x2(a, b) == <<(Hi(a) + Hi(b)) % H16, (Lo(a) + Lo(b)) % H16>>

\* The two masked sums of the source add the bytes pairwise: a carry out of
\* a byte lands in a masked-off bit.
add8x4(a, b) ==
    WordOfBytes((ByteOf(a, 0) + ByteOf(b, 0)) % 256,
                (ByteOf(a, 1) + ByteOf(b, 1)) % 256,
                (ByteOf(a, 2) + ByteOf(b, 2)) % 256,
                (ByteOf(a, 3) + ByteOf(b, 3)) % 256)

sub32(a, b) == add32(add32(not32(a), U32(1)), b)
sub16x2(a, b) == add16x2(add16x2(not32(a), <<1, 1>>), b)
sub8x4(a, b) == add8x4(add8x4(not32(a), <<257, 257>>), b)

\* x >> n and x << n of a uint32_t, 0 <= n <= 31.
shr32(w, n) ==
    IF n >= 16 THEN <<0, Hi(w) \div (2 ^ (n - 16))>>
    ELSE <<Hi(w) \div (2 ^ n),
           (Hi(w) % (2 ^ n)) * (2 ^ (16 - n)) + (Lo(w) \div (2 ^ n))>>

shl32(w, n) ==
    IF n >= 16 THEN <<(Lo(w) * (2 ^ (n - 16))) % H16, 0>>
    ELSE <<(Hi(w) * (2 ^ n) + (Lo(w) \div (2 ^ (16 - n)))) % H16,
           (Lo(w) * (2 ^ n)) % H16>>

RECURSIVE Xor16(_, _, _)
Xor16(x, y, n) ==
    IF n = 0 THEN 0
    ELSE ((x + y) % 2) + 2 * Xor16(x \div 2, y \div 2, n - 1)

xor32(a, b) == <<Xor16(Hi(a), Hi(b), 16), Xor16(Lo(a), Lo(b), 16)>>

\* The 16-entry table of crc32c_8.
CRC32C_TAB ==
    <<<<0, 0>>, <<4190, 51055>>, <<8381, 36574>>, <<12515, 18865>>,
      <<16763, 7612>>, <<20773, 56019>>, <<25030, 37730>>, <<29080, 21517>>,
      <<33526, 15224>>, <<37544, 64535>>, <<41547, 46502>>, <<45589, 29385>>,
      <<50061, 9924>>, <<54227, 57771>>, <<58160, 43034>>, <<62318, 28533>>>>

\* A crc32c_8 that consumes the low nibble of the data only.
crc32c_8_one_nibble(crc, data) ==
    xor32(CRC32C_TAB[Xor16(Lo(crc) % 16, Lo(data) % 16, 4) + 1], shr32(crc, 4))

\* Two table steps, one per nibble of the low byte of data.
crc32c_8(crc, data) ==
    LET crc1 == xor32(CRC32C_TAB[Xor16(Lo(crc) % 16, Lo(data) % 16, 4) + 1],
                      shr32(crc, 4))
    IN  xor32(CRC32C_TAB[Xor16(Lo(crc1) % 16, Lo(shr32(data, 4)) % 16, 4) + 1],
              shr32(crc1, 4))

crc32c_16(crc, data) == crc32c_8(crc32c_8(crc, data), shr32(data, 8))

crc32c_32(crc, data) ==
    crc32c_8(crc32c_8(crc32c_16(crc, data), shr32(data, 16)), shr32(data, 24))

\* static_cast<int32_t>(x) >> n: the arithmetic shift of a word.
asr32(w, n) ==
    IF Hi(w) >= 32768 THEN not32(shr32(not32(w), n)) ELSE shr32(w, n)

\* The word of an int16_t and of an int8_t (sign extension).
s16_word(h) == <<IF h >= 32768 THEN 65535 ELSE 0, h>>
s8_word(v) == IF v >= 128 THEN <<65535, 65280 + v>> ELSE <<0, v>>

\* Bit-field control words: BITS is 5, 4 or 3 for lanes of 32, 16 or 8 bits.
bf_ctrl_width(BITS, ctrl) ==
    LET w == Field(ctrl, IF BITS >= 4 THEN 8 ELSE 4, BITS)
    IN  IF w = 0 THEN 2 ^ BITS ELSE w

bf_ctrl_offset(BITS, ctrl) == Field(ctrl, 0, BITS)

bf_full_mask(BITS) ==
    CASE BITS = 3 -> <<0, 255>>
      [] BITS = 4 -> <<0, 65535>>
      [] OTHER -> OnesW

bf_mask(BITS, ctrl) ==
    LET w == bf_ctrl_width(BITS, ctrl)
    IN  IF w = 2 ^ BITS THEN bf_full_mask(BITS)
        ELSE IF w >= 16 THEN <<2 ^ (w - 16) - 1, 65535>>
        ELSE <<0, 2 ^ w - 1>>

\* x is the lane as the int32_t the source converts it to.
bf_extract(BITS, x, ctrl) ==
    LET y == and32(asr32(x, bf_ctrl_offset(BITS, ctrl)), bf_mask(BITS, ctrl))
        sbit == bf_ctrl_width(BITS, ctrl) - 1
    IN  IF and32(y, shl32(U32(1), sbit)) # ZeroW
        THEN and32(or32(y, shl32(OnesW, sbit)), bf_full_mask(BITS))
        ELSE y

\* A bf_make that leaves the field at bit 0.
bf_make_unshifted(BITS, x, ctrl) ==
    and32(and32(x, bf_mask(BITS, ctrl)), bf_full_mask(BITS))

\* x is the lane as the uint32_t the source converts it to.
bf_make(BITS, x, ctrl) ==
    and32(shl32(and32(x, bf_mask(BITS, ctrl)), bf_ctrl_offset(BITS, ctrl)),
          bf_full_mask(BITS))

\* EX_OP_EBF: ebf32, ebf16x2 or ebf8x4 by the packed mode.
ebf(pm, a, b) ==
    LET c16(k) == bf_extract(4, s16_word(a[2 - k]), <<0, b[2 - k]>>)
        c8(k) == bf_extract(3, s8_word(ByteOf(a, k)), <<0, ByteOf(b, k)>>)
    IN  CASE pm = PACKED_BYTE ->
               or32(or32(shl32(c8(3), 24), shl32(c8(2), 16)),
                    or32(shl32(c8(1), 8), c8(0)))
          [] pm = PACKED_HALF_WORD -> or32(shl32(c16(1), 16), c16(0))
          [] OTHER -> bf_extract(5, a, b)

\* EX_OP_MKBF: mkbf32, mkbf16x2 or mkbf8x4 by the packed mode.
mkbf(pm, a, b) ==
    LET c16(k) == bf_make(4, <<0, a[2 - k]>>, <<0, b[2 - k]>>)
        c8(k) == bf_make(3, <<0, ByteOf(a, k)>>, <<0, ByteOf(b, k)>>)
    IN  CASE pm = PACKED_BYTE ->
               or32(or32(shl32(c8(3), 24), shl32(c8(2), 16)),
                    or32(shl32(c8(1), 8), c8(0)))
          [] pm = PACKED_HALF_WORD -> or32(shl32(c16(1), 16), c16(0))
          [] OTHER -> bf_make(5, a, b)

\* -a modulo 2^32, and a < b, of uint32_t.
neg32(a) == add32(not32(a), U32(1))

Less32(a, b) == Hi(a) < Hi(b) \/ (Hi(a) = Hi(b) /\ Lo(a) < Lo(b))

\* a / b and a % b of uint32_t, b # 0.  A word below 2^31 is divided as an
\* integer; a is halved first (a = 2 * (a >> 1) + (a & 1)) so that it fits,
\* and a divisor of 2^31 or more goes into a at most once.
UDivMod(a, b) ==
    IF Hi(b) >= 32768
    THEN IF Less32(a, b) THEN [q |-> ZeroW, r |-> a]
         ELSE [q |-> U32(1), r |-> add32(a, neg32(b))]
    ELSE LET half == Hi(shr32(a, 1)) * H16 + Lo(shr32(a, 1))
             l0 == Lo(a) % 2
             bi == Hi(b) * H16 + Lo(b)
             qh == half \div bi
             rh == half % bi
             extra == IF rh >= bi - rh - l0 THEN 1 ELSE 0
         IN  [q |-> add32(shl32(U32(qh), 1), U32(extra)),
              r |-> U32(IF extra = 1 THEN rh - (bi - rh - l0) ELSE 2 * rh + l0)]

\* |x| of an int32_t, as a uint32_t.
abs32(x) == IF Hi(x) >= 32768 THEN neg32(x) ELSE x

\* div_allow_zero<T>: T is int32_t (is_signed) or uint32_t.  The quotient of
\* INT_MIN / -1, which C++ leaves undefined, is given as the wrapped
\* 0x80000000 here; ExUndefined names that case.
div_allow_zero(is_signed, a, b) ==
    IF b = ZeroW THEN OnesW
    ELSE IF ~is_signed THEN UDivMod(a, b).q
    ELSE LET q == UDivMod(abs32(a), abs32(b)).q
         IN  IF (Hi(a) >= 32768) # (Hi(b) >= 32768) THEN neg32(q) ELSE q

\* mod_allow_zero<T>: the remainder has the sign of the dividend.
mod_allow_zero(is_signed, a, b) ==
    IF b = ZeroW THEN a
    ELSE IF ~is_signed THEN UDivMod(a, b).r
    ELSE LET r == UDivMod(abs32(a), abs32(b)).r
         IN  IF Hi(a) >= 32768 THEN neg32(r) ELSE r

\* EX_OP_DIV, DIVU, REM and REMU: div32 .. remu8x4 by the packed mode.  The
\* signed packed kernels mask each lane's result, the unsigned ones do not.
DivRem(ex_op, pm, a, b) ==
    LET is_signed == ex_op \in {EX_OP_DIV, EX_OP_REM}
        F(x, y) == IF ex_op \in {EX_OP_DIV, EX_OP_DIVU}
                   THEN div_allow_zero(is_signed, x, y)
                   ELSE mod_allow_zero(is_signed, x, y)
        L16(x, k) == IF is_signed THEN s16_word(x[2 - k]) ELSE <<0, x[2 - k]>>
        L8(x, k) == IF is_signed THEN s8_word(ByteOf(x, k))
                    ELSE <<0, ByteOf(x, k)>>
        c16(k) == IF is_signed THEN and32(F(L16(a, k), L16(b, k)), <<0, 65535>>)
                  ELSE F(L16(a, k), L16(b, k))
        c8(k) == IF is_signed THEN and32(F(L8(a, k), L8(b, k)), <<0, 255>>)
                 ELSE F(L8(a, k), L8(b, k))
    IN  CASE pm = PACKED_BYTE ->
               or32(or32(shl32(c8(3), 24), shl32(c8(2), 16)),
                    or32(shl32(c8(1), 8), c8(0)))
          [] pm = PACKED_HALF_WORD -> or32(shl32(c16(1), 16), c16(0))
          [] OTHER -> F(a, b)

\* The value of an intN_t lane, as an integer.
s16_int(h) == IF h >= 32768 THEN h - H16 ELSE h
s8_int(v) == IF v >= 128 THEN v - 256 ELSE v

\* The saturate kernels.  An int64_t or uint64_t x of the 32-bit kernels is
\* the pair h, l with x = h * 2^16 + l and 0 <= l < 2^16; a difference of
\* unsigned operands that wraps in the source is a negative x here.
saturate32(h, l) ==
    IF h > 32767 THEN <<32767, 65535>>
    ELSE IF h < -32768 THEN <<32768, 0>>
    ELSE <<IF h < 0 THEN h + H16 ELSE h, l>>

saturate16(x) ==
    IF x > 32767 THEN <<0, 32767>>
    ELSE IF x < -32768 THEN <<0, 32768>>
    ELSE <<0, IF x < 0 THEN x + H16 ELSE x>>

\* A saturate8 that wraps.
saturate8_wrap(x) == <<0, (x + 256) % 256>>

saturate8(x) ==
    IF x > 127 THEN <<0, 127>>
    ELSE IF x < -128 THEN <<0, 128>>
    ELSE <<0, IF x < 0 THEN x + 256 ELSE x>>

saturateu32(h, l) ==
    IF h < 0 THEN ZeroW
    ELSE IF h > 65535 THEN OnesW
    ELSE <<h, l>>

saturateu16(x) ==
    IF x < 0 THEN ZeroW ELSE IF x > 65535 THEN <<0, 65535>> ELSE <<0, x>>

saturateu8(x) ==
    IF x < 0 THEN ZeroW ELSE IF x > 255 THEN <<0, 255>> ELSE <<0, x>>

\* EX_OP_ADDS, ADDSU, SUBS and SUBSU: saturating_op_32 .. saturating_op_u8x4
\* by the packed mode, with the lambda x + y or x - y.
SaturatingOp(ex_op, pm, a, b) ==
    LET is_signed == ex_op \in {EX_OP_ADDS, EX_OP_SUBS}
        is_add == ex_op \in {EX_OP_ADDS, EX_OP_ADDSU}
        op(x, y) == IF is_add THEN x + y ELSE x - y
        H(x) == IF is_signed THEN s16_int(Hi(x)) ELSE Hi(x)
        l == op(Lo(a), Lo(b))
        carry == IF l < 0 THEN -1 ELSE IF l >= H16 THEN 1 ELSE 0
        h == op(H(a), H(b)) + carry
        L16(x, k) == IF is_signed THEN s16_int(x[2 - k]) ELSE x[2 - k]
        L8(x, k) == IF is_signed THEN s8_int(ByteOf(x, k)) ELSE ByteOf(x, k)
        c16(k) == IF is_signed THEN saturate16(op(L16(a, k), L16(b, k)))
                  ELSE saturateu16(op(L16(a, k), L16(b, k)))
        c8(k) == IF is_signed THEN saturate8(op(L8(a, k), L8(b, k)))
                 ELSE saturateu8(op(L8(a, k), L8(b, k)))
    IN  CASE pm = PACKED_BYTE ->
               or32(or32(shl32(c8(3), 24), shl32(c8(2), 16)),
                    or32(shl32(c8(1), 8), c8(0)))
          [] pm = PACKED_HALF_WORD -> or32(shl32(c16(1), 16), c16(0))
          [] OTHER -> IF is_signed THEN saturate32(h, l - carry * H16)
                      ELSE saturateu32(h, l - carry * H16)

\* The EX operations this model covers; cpu_simple_t::run has many more.
ExModelled(d) ==
    \/ d.mem_op # MEM_OP_NONE
    \/ d.ex_op \in {EX_OP_LDI, EX_OP_ADDPC, EX_OP_ADDPCHI, EX_OP_OR, EX_OP_AND,
                    EX_OP_ADD, EX_OP_SUB}

Ex(d, src_a, src_b, src_c) ==
    IF d.mem_op # MEM_OP_NONE
    THEN \* AGU
         add32(src_a, MulSmall(src_b, index_scale_factor(d.packed_mode)))
    ELSE CASE d.ex_op \in {EX_OP_ADDPC, EX_OP_ADDPCHI} -> add32(src_a, src_b)
           [] d.ex_op = EX_OP_LDI -> src_b
           [] d.ex_op = EX_OP_OR ->
                CASE d.packed_mode = 1 -> or32(src_a, not32(src_b))
                  [] d.packed_mode = 2 -> or32(not32(src_a), src_b)
                  [] d.packed_mode = 3 -> or32(not32(src_a), not32(src_b))
                  [] OTHER -> or32(src_a, src_b)
           [] d.ex_op = EX_OP_AND ->
                CASE d.packed_mode = 1 -> and32(src_a, not32(src_b))
                  [] d.packed_mode = 2 -> and32(not32(src_a), src_b)
                  [] d.packed_mode = 3 -> and32(not32(src_a), not32(src_b))
                  [] OTHER -> and32(src_a, src_b)
           [] d.ex_op = EX_OP_ADD ->
                CASE d.packed_mode = PACKED_BYTE -> add8x4(src_a, src_b)
                  [] d.packed_mode = PACKED_HALF_WORD -> add16x2(src_a, src_b)
                  [] OTHER -> add32(src_a, src_b)
           [] d.ex_op = EX_OP_SUB ->
                CASE d.packed_mode = PACKED_BYTE -> sub8x4(src_a, src_b)
                  [] d.packed_mode = PACKED_HALF_WORD -> sub16x2(src_a, src_b)
                  [] OTHER -> sub32(src_a, src_b)
           [] d.ex_op = EX_OP_EBF -> ebf(d.packed_mode, src_a, src_b)
           [] d.ex_op = EX_OP_MKBF -> mkbf(d.packed_mode, src_a, src_b)
           [] d.ex_op \in {EX_OP_ADDS, EX_OP_ADDSU, EX_OP_SUBS, EX_OP_SUBSU} ->
                SaturatingOp(d.ex_op, d.packed_mode, src_a, src_b)
           [] d.ex_op \in {EX_OP_DIV, EX_OP_DIVU, EX_OP_REM, EX_OP_REMU} ->
                DivRem(d.ex_op, d.packed_mode, src_a, src_b)
           [] d.ex_op = EX_OP_CRC32C ->
                CASE d.packed_mode = 1 -> crc32c_16(src_c, src_a)
                  [] d.packed_mode = 2 -> crc32c_32(src_c, src_a)
                  [] OTHER -> crc32c_8(src_c, src_a)
           [] OTHER -> ZeroW

\* The operands for which C++ leaves the EX operation undefined: the signed
\* 32-bit division and remainder of INT_MIN by -1 (a SIGFPE on x86, the
\* wrapped result on others).
ExUndefined(d, src_a, src_b) ==
    /\ d.mem_op = MEM_OP_NONE
    /\ d.ex_op \in {EX_OP_DIV, EX_OP_REM}
    /\ d.packed_mode \notin {PACKED_BYTE, PACKED_HALF_WORD}
    /\ src_a = <<32768, 0>> /\ src_b = OnesW

\* The MEM switch: the access made for decode.mem_op at address ex_result.
MemStage(mem_op, m, ex_result, src_c) ==
    CASE mem_op = MEM_OP_LOAD8 -> load8signed(m, ex_result)
      [] mem_op = MEM_OP_LOADU8 -> load8(m, ex_result)
      [] mem_op = MEM_OP_LOAD16 -> load16signed(m, ex_result)
      [] mem_op = MEM_OP_LOADU16 -> load16(m, ex_result)
      [] mem_op = MEM_OP_LOAD32 -> load32(m, ex_result)
      [] mem_op = MEM_OP_LDEA -> RamRes("none", ex_result, m)
      [] mem_op = MEM_OP_STORE8 -> store8(m, ex_result, src_c)
      [] mem_op = MEM_OP_STORE16 -> store16(m, ex_result, src_c)
      [] mem_op = MEM_OP_STORE32 -> store32(m, ex_result, src_c)
      [] OTHER -> RamRes("none", ZeroW, m)

\* RF without the folding offset.
vector_idx_a_unfolded(v, idx) == idx

\* RF: the element of source A's vector register a lane reads.
vector_idx_a(v, idx) == IF v.folding THEN v.vector_len + idx ELSE idx

\* A write-back without the REG_Z test.
WriteBackRegs_unguarded(d, regs, dst_data) ==
    IF ~d.dst_reg.is_vector
    THEN [regs EXCEPT ![d.dst_reg.no] = dst_data]
    ELSE regs

\* WB: the register files after the write-back of dst_data.
WriteBackRegs(d, regs, dst_data) ==
    IF d.dst_reg.no # REG_Z /\ ~d.dst_reg.is_vector
    THEN [regs EXCEPT ![d.dst_reg.no] = dst_data]
    ELSE regs

\* m_vregs is zero-filled by reset: the model keeps the non-zero elements.
\* A register file read that always returns element 0.
VGet_element0(vregs, r, e) ==
    IF <<r, 0>> \in DOMAIN vregs THEN vregs[<<r, 0>>] ELSE ZeroW

VGet(vregs, r, e) == IF <<r, e>> \in DOMAIN vregs THEN vregs[<<r, e>>] ELSE ZeroW

VSet(vregs, r, e, w) ==
    IF w = ZeroW
    THEN [x \in (DOMAIN vregs) \ {<<r, e>>} |-> vregs[x]]
    ELSE [x \in (DOMAIN vregs) \cup {<<r, e>>} |->
            IF x = <<r, e>> THEN w ELSE vregs[x]]

\* A vector write-back that always lands in element 0.
WriteBackVregs_lane0(d, vregs, idx, dst_data) ==
    IF d.dst_reg.no # REG_Z /\ d.dst_reg.is_vector
    THEN VSet(vregs, d.dst_reg.no, 0, dst_data)
    ELSE vregs

\* A vector write-back whose REG_Z test is for scalar destinations only.
WriteBackVregs_into_v0(d, vregs, idx, dst_data) ==
    IF d.dst_reg.is_vector
    THEN VSet(vregs, d.dst_reg.no, idx, dst_data)
    ELSE vregs

WriteBackVregs(d, vregs, idx, dst_data) ==
    IF d.dst_reg.no # REG_Z /\ d.dst_reg.is_vector
    THEN VSet(vregs, d.dst_reg.no, idx, dst_data)
    ELSE vregs

\* A loop that runs once whatever the vector length.
num_vector_loops_once == IF vector.is_vector_op THEN 1 ELSE 1

num_vector_loops == IF vector.is_vector_op THEN vector.vector_len ELSE 1

\* update_mc1_clkcnt: m_mc1_mmio is set when the constructor finds the MMIO
\* band inside RAM; the two words are stored in host byte order.
MMIO_START == <<49152, 0>>

has_mc1_mmio_regs == valid_range(MMIO_START, U32(64))

update_mc1_clkcnt(m, count) ==
    IF has_mc1_mmio_regs
    THEN LET clkcntlo == <<(count \div H16) % H16, count % H16>>
             c32 == (count \div H16) \div H16
             clkcnthi == <<(c32 \div H16) % H16, c32 % H16>>
         IN  NativeStore32(NativeStore32(m, MMIO_START, clkcntlo),
                           AddrPlus(MMIO_START, 16), clkcnthi)
    ELSE m

----------------------------------------------------------------------------
(* syscalls_t (src/unnamed/part_005).  The routine numbers are those of    *)
(* routine_t in syscalls.hpp.  The file-system routines are not modelled.  *)

ROUTINE_EXIT == 0
ROUTINE_PUTCHAR == 1
ROUTINE_GETCHAR == 2
ROUTINE_GETTIMEMICROS == 14
ROUTINE_LAST == 15

RoutineModelled(n) ==
    n >= ROUTINE_LAST
    \/ n \in {ROUTINE_EXIT, ROUTINE_PUTCHAR, ROUTINE_GETCHAR, ROUTINE_GETTIMEMICROS}

\* syscalls_t::clear
SyscallsClear == [terminate |-> FALSE, exit_code |-> ZeroW]

\* syscalls_t::call: the registers after the call; host is what the host
\* routine returned (two words).
CallRegs(routine_no, regs, host) ==
    CASE routine_no >= ROUTINE_LAST -> regs
      [] routine_no = ROUTINE_EXIT -> regs
      [] routine_no = ROUTINE_PUTCHAR -> [regs EXCEPT ![1] = host[1]]
      [] routine_no = ROUTINE_GETCHAR -> [regs EXCEPT ![1] = host[1]]
      [] routine_no = ROUTINE_GETTIMEMICROS ->
            [regs EXCEPT ![1] = host[1], ![2] = host[2]]
      [] OTHER -> regs

\* A call in which every routine ends the simulation as EXIT does.
CallState_every_routine_exits(routine_no, regs, sc) ==
    IF routine_no < ROUTINE_LAST
    THEN [terminate |-> TRUE, exit_code |-> regs[1]]
    ELSE sc

\* syscalls_t::call / sim_exit: the syscalls_t state after the call.
CallState(routine_no, regs, sc) ==
    IF routine_no = ROUTINE_EXIT
    THEN [terminate |-> TRUE, exit_code |-> regs[1]]
    ELSE sc

\* What the host routines may return: putchar and getchar a character or
\* EOF, gettimeofday any 64-bit count.
HostResults(routine_no, regs) ==
    CASE routine_no = ROUTINE_PUTCHAR ->
            {<<<<0, Lo(regs[1]) % 256>>, ZeroW>>, <<OnesW, ZeroW>>}
      [] routine_no = ROUTINE_GETCHAR ->
            {<<<<0, 65>>, ZeroW>>, <<OnesW, ZeroW>>}
      [] routine_no = ROUTINE_GETTIMEMICROS ->
            {<<<<4660, 22136>>, <<0, 5>>>>}
      [] OTHER -> {<<ZeroW, ZeroW>>}

\* A trap window of one word per routine.
InTrapWindow_per_routine(p) == Hi(p) = 65535 /\ Lo(p) < 4 * ROUTINE_LAST

\* Simulator routines start at PC = 0xffff0000.
InTrapWindow(p) == Hi(p) = 65535

routine_no_of(p) == Lo(p) \div 4


----------------------------------------------------------------------------
(* Inputs: instruction words, programs, RAM sizes, run arguments.          *)

EncA(op7, r1, r2, r3, vm, pm) ==
    <<r1 * 32 + r2, vm * 16384 + r3 * 512 + pm * 128 + op7>>
EncC(op6, r1, r2, v, imm15) ==
    <<op6 * 1024 + r1 * 32 + r2, v * 32768 + imm15>>
EncD(op6, r1, imm21) ==
    <<op6 * 1024 + r1 * 32 + (imm21 \div H16), imm21 % H16>>
EncE(cond, r1, imm18) ==
    <<55 * 1024 + r1 * 32 + cond * 4 + (imm18 \div H16), imm18 % H16>>

I_LDI(r, imm) == EncD(54, r, imm)
I_JL_TRAP(n) == EncD(49, 0, 2080768 + n)      \* jl z, #0xffff0000 + 4n
I_ADD(r1, r2, r3, vm, pm) == EncA(22, r1, r2, r3, vm, pm)
I_VLDEA(r1, r2, stride) == EncC(7, r1, r2, 1, stride)

\* ldi r1,#100; ldi vl,#k; ldea v1,[z,#1] (v1[i] = i); add v2,v1,<1>/mode;
\* jl exit
ProgVector(k, vm) ==
    <<I_LDI(1, 100), I_LDI(REG_VL, k), I_VLDEA(1, 0, 1),
      I_ADD(2, 1, 1, vm, 0), I_JL_TRAP(ROUTINE_EXIT)>>

\* ldi r1,#0x4d2f1; ldi r2,#addr; <op> r1/r3,[r2,#0]; jl exit
ProgMem(op6, addr) ==
    <<I_LDI(1, 315121), I_LDI(2, addr),
      EncC(op6, IF op6 >= 8 THEN 1 ELSE 3, 2, 0, 0), I_JL_TRAP(ROUTINE_EXIT)>>

\* ldi vl,#4; ldi r2,#base; ldea v1,[z,#3]; stw v1,[r2,#stride]; ldw v0,..
ProgVecMem(base, stride) ==
    <<I_LDI(REG_VL, 4), I_LDI(2, base), I_VLDEA(1, 0, 3),
      EncC(11, 1, 2, 1, stride), EncC(3, 0, 2, 1, stride),
      I_JL_TRAP(ROUTINE_EXIT)>>

\* ldi r1,#5; ldi vl,#3; ldea v1,[z,#2] (v1[i] = 2i); ldea v3,[r1,<1>]/mode;
\* stw v3,[r1,<1>]/mode; jl exit
ProgVecIdx(vm) ==
    <<I_LDI(1, 5), I_LDI(REG_VL, 3), I_VLDEA(1, 0, 2),
      EncA(MEM_OP_LDEA, 3, 1, 1, vm, 0), EncA(MEM_OP_STORE32, 3, 1, 1, vm, 0),
      I_JL_TRAP(ROUTINE_EXIT)>>

\* ldi vl,#4; ldi r2,#base; ldea v1,[z,#259] (v1[i] = 259i);
\* st<size> v1,[r2,#stride]; ldw v3,[r2,#stride]; ldw v5,[r2,vl*2^pm]; jl exit
ProgVecStride(st, base, stride, pm) ==
    <<I_LDI(REG_VL, 4), I_LDI(2, base), I_VLDEA(1, 0, 259),
      EncC(st, 1, 2, 1, stride), EncC(MEM_OP_LOAD32, 3, 2, 1, stride),
      EncA(MEM_OP_LOAD32, 5, 2, REG_VL, 2, pm), I_JL_TRAP(ROUTINE_EXIT)>>

\*  0: jl pc,#16    4: j lr,#4    8: j pc,#-4    12: ldi r1,#7
\* 16: jl lr,#4    20: ldi r2,#9   24: jl exit
ProgJump ==
    <<EncD(49, 31, 4), EncD(48, REG_LR, 1), EncD(48, 31, 2097151), I_LDI(1, 7),
      EncD(49, REG_LR, 1), I_LDI(2, 9), I_JL_TRAP(ROUTINE_EXIT)>>

\* ldi r1,#v; b[cond] r1,#+8; ldi r2,#5; ldi r3,#7; jl exit
ProgBranch(cond, ldi_imm) ==
    <<I_LDI(1, ldi_imm), EncE(cond, 1, 2), I_LDI(2, 5), I_LDI(3, 7),
      I_JL_TRAP(ROUTINE_EXIT)>>

\* ldi r1,#1; ldi r2,#5; bnz r1,#-4 (back to the second ldi)
ProgBranchBack == <<I_LDI(1, 1), I_LDI(2, 5), EncE(1, 1, 262143)>>

ProgSys ==
    {<<I_LDI(0, 5), I_LDI(1, 65), I_ADD(0, 1, 1, 0, 0),
       I_JL_TRAP(ROUTINE_PUTCHAR), I_JL_TRAP(ROUTINE_GETTIMEMICROS),
       I_JL_TRAP(ROUTINE_EXIT), I_LDI(3, 7)>>,
     <<I_LDI(1, 42), I_JL_TRAP(ROUTINE_EXIT), I_LDI(2, 7), I_LDI(3, 9)>>,
     <<I_JL_TRAP(20), I_JL_TRAP(ROUTINE_GETCHAR), EncC(3, 0, 0, 0, 0),
       EncD(48, 0, 2080768 + ROUTINE_EXIT)>>,    \* j z, #0xffff0000
     <<I_LDI(1, 1048575), EncE(2, 1, 2), I_LDI(2, 1), I_ADD(REG_VL, 1, 1, 0, 1),
       EncD(49, REG_LR, 2), I_LDI(3, 3), I_JL_TRAP(ROUTINE_EXIT)>>}


Programs ==
    {ProgVector(k, vm) : k \in {0, 3, 4, 16, 1048575}, vm \in 1..3}
    \cup {ProgMem(op, a) : op \in {MEM_OP_LOAD8, MEM_OP_LOAD16, MEM_OP_LOAD32,
                                  MEM_OP_LOADU8, MEM_OP_LOADU16, MEM_OP_STORE8,
                                  MEM_OP_STORE16, MEM_OP_STORE32},
                          a \in {4, 5, 6, 62, 64}}
    \cup {ProgVecMem(56, 4), ProgVecMem(40, 0), ProgVecMem(41, 4)}
    \cup {ProgVecIdx(vm) : vm \in 1..3}
    \cup {ProgVecStride(MEM_OP_STORE32, 40, 4, 0),
          ProgVecStride(MEM_OP_STORE32, 52, 32764, 1),    \* stride -4
          ProgVecStride(MEM_OP_STORE16, 40, 0, 2),
          ProgVecStride(MEM_OP_STORE8, 41, 1, 3)}
    \cup {ProgJump}
    \* r1 = 0, 1, 0xFFFFFFFF, 0x80000000, 0x7FFFFFFF
    \cup {ProgBranch(cond, v) : cond \in 0..7,
                                v \in {0, 1, 1048575, 1572864, 1572863}}
    \cup {ProgBranchBack}
    \cup ProgSys

\* The loader stores the program byte by byte, little-endian words: byte k of
\* word i goes to base + 4 (i - 1) + k, and the other bytes of m stay.
LoadWords(m, base, ws) ==
    LET At(i, k) == AddrPlus(base, 4 * (i - 1) + k)
        Slots == (1..Len(ws)) \X (0..3)
        written == {At(p[1], p[2]) : p \in Slots}
        val(a) == IF a \in written
                  THEN LET p == CHOOSE q \in Slots : At(q[1], q[2]) = a
                       IN  ByteOf(ws[p[1]], p[2])
                  ELSE m[a]
    IN  [a \in {x \in (DOMAIN m) \cup written : val(x) # 0} |-> val(a)]

\* 64 bytes, and the full 4 GiB.
RamSizes == {<<64, 0, 0, 0>>, <<0, 0, 1, 0>>}
StartAddrs == {ZeroW, <<65535, 0>>, <<65535, 82>>}
MaxCycleArgs == {-1, 0, 3}

\* A run is followed for at most MaxFetch fetched instructions.
MaxFetch == 8

----------------------------------------------------------------------------
(* The interpreter: cpu_t::reset, cpu_t::terminate, cpu_simple_t::run.     *)

Lane0 == [vector_idx_a |-> 0, src_a |-> ZeroW, src_b |-> ZeroW,
          src_c |-> ZeroW, ex_result |-> ZeroW, mem_result |-> ZeroW,
          fault |-> "none"]

RamRet0 == [op |-> "none", addr |-> ZeroW, arg |-> ZeroW, fault |-> "none",
            val |-> ZeroW, ok |-> FALSE, before |-> EmptyMem, n |-> 0]

\* The debug trace of cpu_t (src/unnamed/part_002, src/sim/cpu.hpp).  A trace
\* record is modelled by the number of the lane it describes; its 20 bytes
\* are not.
TRACE_FLUSH_INTERVAL == 128
TRACE_ENTRY_SIZE == 5 * 4

\* cpu_t before the constructor body: tracing off, no file, nothing buffered.
\* m_debug_trace_buf holds TRACE_FLUSH_INTERVAL entries (0: never written).
Tracer0 ==
    [m_enable_tracing |-> FALSE,
     is_open |-> FALSE,
     m_debug_trace_buf |-> [i \in 0..(TRACE_FLUSH_INTERVAL - 1) |-> 0],
     m_debug_trace_file_buf_entries |-> 0,
     m_trace_file |-> <<>>,
     lanes |-> 0,               \* history: lanes executed
     opened |-> FALSE,          \* history: the constructor opened the file
     destroyed |-> FALSE]

\* A flush that writes the buffer and keeps the entry count.
flush_debug_trace_buffer_keeps_count(t) ==
    IF t.m_debug_trace_file_buf_entries > 0 /\ t.is_open
    THEN [t EXCEPT !.m_trace_file =
            @ \o [i \in 1..t.m_debug_trace_file_buf_entries |->
                    t.m_debug_trace_buf[i - 1]]]
    ELSE t

\* cpu_t::flush_debug_trace_buffer; a write to a file that is not open
\* writes nothing.
flush_debug_trace_buffer(t) ==
    IF t.m_debug_trace_file_buf_entries > 0
    THEN [t EXCEPT !.m_trace_file =
                      IF t.is_open
                      THEN @ \o [i \in 1..t.m_debug_trace_file_buf_entries |->
                                   t.m_debug_trace_buf[i - 1]]
                      ELSE @,
                   !.m_debug_trace_file_buf_entries = 0]
    ELSE t

\* cpu_t::append_debug_trace_impl
append_debug_trace_impl(t, rec) ==
    LET t1 == [t EXCEPT !.m_debug_trace_buf[t.m_debug_trace_file_buf_entries] = rec,
                        !.m_debug_trace_file_buf_entries = @ + 1]
    IN  IF t1.m_debug_trace_file_buf_entries >= TRACE_FLUSH_INTERVAL
        THEN flush_debug_trace_buffer(t1)
        ELSE t1

\* cpu_t::append_debug_trace
append_debug_trace(t, valid, rec) ==
    IF t.m_enable_tracing /\ valid THEN append_debug_trace_impl(t, rec) ELSE t

\* perf_symbols_t (src/sim/perf_symbols.hpp, src/unnamed/part_005).  The
\* symbol table is a sequence; the C++ index i is element i + 1 of it.
Perf0 ==
    [m_symbols |-> <<>>, m_has_symbols |-> FALSE, m_last_sym_idx |-> 0,
     n |-> 0, addr |-> ZeroW, before |-> <<>>]   \* history: the last add_ref

\* perf_symbols_t::load of a file naming the addresses of file_syms: <NULL>
\* at 0 and <END> at 0xffffffff are added and the table is sorted by address.
load(p, file_syms) ==
    LET all == file_syms \cup {ZeroW, OnesW}
        sorted == CHOOSE f \in [1..Cardinality(all) -> all] :
                     \A i, j \in 1..Cardinality(all) : i < j => Less32(f[i], f[j])
    IN  [p EXCEPT !.m_symbols = [i \in 1..Cardinality(all) |->
                                    [addr |-> sorted[i], cycles |-> 0]],
                  !.m_has_symbols = TRUE]

\* The binary search of add_ref_impl, from the bounds L and R on.
RECURSIVE add_ref_search(_, _, _, _)
add_ref_search(p, addr, L, R) ==
    IF L > R THEN p
    ELSE LET m == (L + R) \div 2
         IN  IF ~Less32(addr, p.m_symbols[m + 2].addr)
             THEN add_ref_search(p, addr, m + 1, R)
             ELSE IF Less32(addr, p.m_symbols[m + 1].addr)
             THEN add_ref_search(p, addr, L, m - 1)
             ELSE [p EXCEPT !.m_last_sym_idx = m,
                            !.m_symbols[m + 1].cycles = @ + 1]

\* perf_symbols_t::add_ref_impl
add_ref_impl(p, addr) ==
    IF /\ ~Less32(addr, p.m_symbols[p.m_last_sym_idx + 1].addr)
       /\ ~Less32(p.m_symbols[p.m_last_sym_idx + 2].addr, addr)
    THEN [p EXCEPT !.m_symbols[p.m_last_sym_idx + 1].cycles = @ + 1]
    ELSE add_ref_search(p, addr, 0, Len(p.m_symbols) - 2)

\* perf_symbols_t::add_ref
add_ref(p, addr) == IF p.m_has_symbols THEN add_ref_impl(p, addr) ELSE p

\* No EX operation applied yet.
Alu0 ==
    [a |-> ZeroW, b |-> ZeroW, c |-> ZeroW, pm |-> 0, op |-> 0, res |-> ZeroW,
     fault |-> FALSE, n |-> 0]

\* cpu_t::reset, as the constructor calls it.
ResetCpu ==
    /\ m_regs = [r \in 0..(NUM_REGS - 1) |-> ZeroW]
    /\ m_vregs = [x \in {} |-> ZeroW]
    /\ m_syscalls = SyscallsClear
    /\ m_terminate_requested = FALSE
    /\ m_fetched_instr_count = 0
    /\ m_vector_loop_count = 0
    /\ m_total_cycle_count = 0

RunLocals0 ==
    /\ phase = "idle"
    /\ max_cycles = -1
    /\ decode = Decode0
    /\ vector = Vector0
    /\ next_pc = ZeroW
    /\ pc = ZeroW
    /\ iword = ZeroW
    /\ vec_idx = 0
    /\ lane = Lane0
    /\ wb_lanes = <<>>
    /\ cycles_at_fetch = 0
    /\ vector_lanes_run = 0
    /\ exit_trap_args = <<>>
    /\ ret = ZeroW

Init ==
    /\ m_size \in RamSizes
    /\ host_be \in BOOLEAN
    /\ \E prog \in Programs : mem = LoadWords(EmptyMem, ZeroW, prog)
    /\ ram_ret = RamRet0
    /\ ResetCpu
    /\ RunLocals0
    /\ alu = Alu0
    /\ tracer = Tracer0
    /\ perf = Perf0

\* run(start_addr, max_cycles) up to the while loop.
Run(start_addr, maxc) ==
    /\ phase = "idle"
    /\ m_syscalls' = SyscallsClear
    /\ m_regs' = [m_regs EXCEPT ![REG_PC] = start_addr]
    /\ m_fetched_instr_count' = 0
    /\ m_vector_loop_count' = 0
    /\ m_total_cycle_count' = 0
    /\ vector' = Vector0
    /\ decode' = Decode0
    /\ max_cycles' = maxc
    /\ phase' = "loop"
    /\ vector_lanes_run' = 0
    /\ exit_trap_args' = <<>>
    /\ UNCHANGED <<ramvars, m_vregs, m_terminate_requested, next_pc, pc, iword,
                   vec_idx, lane, wb_lanes, cycles_at_fetch, ret, unitvars>>

\* cpu_t::terminate, called from another thread.
Terminate ==
    /\ phase \in {"idle", "loop", "fetch", "lanes", "tail"}
    /\ ~m_terminate_requested
    /\ m_terminate_requested' = TRUE
    /\ UNCHANGED <<ramvars, m_regs, m_vregs, m_fetched_instr_count,
                   m_vector_loop_count, m_total_cycle_count, m_syscalls, runvars,
                   unitvars>>

\* A loop that tests the guest's exit only.
LoopCondition_exit_only == ~m_syscalls.terminate /\ m_terminate_requested \in BOOLEAN

LoopCondition == ~m_syscalls.terminate /\ ~m_terminate_requested

\* The while condition fails: end_simulation; return m_syscalls.exit_code().
RunReturn ==
    /\ phase = "loop"
    /\ ~LoopCondition
    /\ phase' = "done"
    /\ ret' = m_syscalls.exit_code
    /\ UNCHANGED <<ramvars, cpuvars, max_cycles, decode, vector, next_pc, pc,
                   iword, vec_idx, lane, wb_lanes, cycles_at_fetch,
                   vector_lanes_run, exit_trap_args, unitvars>>

\* Simulator routine call handling.
Trap ==
    /\ phase = "loop"
    /\ LoopCondition
    /\ InTrapWindow(m_regs[REG_PC])
    /\ m_fetched_instr_count < MaxFetch    \* the IF/ID of this cycle follows
    /\ LET routine_no == routine_no_of(m_regs[REG_PC])
       IN  /\ RoutineModelled(routine_no)
           /\ \E host \in HostResults(routine_no, m_regs) :
                LET regs1 == CallRegs(routine_no, m_regs, host)
                IN  /\ m_syscalls' = CallState(routine_no, m_regs, m_syscalls)
                    /\ m_regs' = [regs1 EXCEPT ![REG_PC] = regs1[REG_LR]]
    /\ phase' = "fetch"
    /\ UNCHANGED <<ramvars, m_vregs, m_fetched_instr_count, m_vector_loop_count,
                   m_total_cycle_count, m_terminate_requested, max_cycles,
                   decode, vector, next_pc, pc, iword, vec_idx, lane, wb_lanes,
                   cycles_at_fetch, vector_lanes_run, ret, unitvars>>
    /\ exit_trap_args' = IF routine_no_of(m_regs[REG_PC]) = ROUTINE_EXIT
                         THEN Append(exit_trap_args, m_regs[1])
                         ELSE exit_trap_args

\* IF/ID: fetch, branch handling, decode, vector state initialization.
Fetch ==
    /\ \/ phase = "fetch"
       \/ phase = "loop" /\ LoopCondition /\ ~InTrapWindow(m_regs[REG_PC])
    /\ m_fetched_instr_count < MaxFetch
    /\ \E r \in {load32(mem, m_regs[REG_PC])} :
       \E iw \in {r.val} :
       \E regs1 \in {LinkRegs(iw, m_regs[REG_PC], m_regs)} :
       \E vec1 \in {VectorInit(vector, iw, regs1)} :
           IF r.fault # "none"
           THEN /\ phase' = "fetch_fault"
                /\ lane' = [lane EXCEPT !.fault = r.fault]
                /\ UNCHANGED <<cpuvars, max_cycles, decode, vector, next_pc, pc,
                               iword, vec_idx, wb_lanes, cycles_at_fetch, ret>>
           ELSE /\ ExModelled(Decode(iw))
                /\ pc' = m_regs[REG_PC]
                /\ iword' = iw
                /\ m_fetched_instr_count' = m_fetched_instr_count + 1
                /\ next_pc' = NextPc(iw, m_regs[REG_PC], m_regs)
                /\ m_regs' = regs1
                /\ decode' = Decode(iw)
                /\ vector' = vec1
                /\ vec_idx' = 0
                /\ wb_lanes' = <<>>
                /\ cycles_at_fetch' = m_total_cycle_count
                /\ phase' = IF (IF vec1.is_vector_op THEN vec1.vector_len ELSE 1) > 0
                            THEN "lanes" ELSE "tail"
                /\ UNCHANGED <<m_vregs, m_vector_loop_count, m_total_cycle_count,
                               m_terminate_requested, m_syscalls, max_cycles,
                               lane, ret>>
    /\ UNCHANGED <<ramvars, vector_lanes_run, exit_trap_args, unitvars>>

\* One iteration of the vector loop: RF, EX, MEM, WB, the stride increment,
\* the cycle count and the cycle limit.
Lane ==
    /\ phase = "lanes"
    /\ LET idx_a == vector_idx_a(vector, vec_idx)
           reg_a_data == IF decode.src_reg_a.is_vector
                         THEN VGet(m_vregs, decode.src_reg_a.no, idx_a)
                         ELSE m_regs[decode.src_reg_a.no]
           reg_b_data == IF decode.src_reg_b.is_vector
                         THEN VGet(m_vregs, decode.src_reg_b.no, vec_idx)
                         ELSE m_regs[decode.src_reg_b.no]
           reg_c_data == IF decode.src_reg_c.is_vector
                         THEN VGet(m_vregs, decode.src_reg_c.no, vec_idx)
                         ELSE m_regs[decode.src_reg_c.no]
           src_a == reg_a_data
           src_b == IF decode.src_b_is_stride THEN vector.addr_offset
                    ELSE IF decode.src_b_is_imm THEN decode.src_imm
                    ELSE reg_b_data
           src_c == reg_c_data
           count == m_total_cycle_count + 1
           limit == max_cycles >= 0 /\ count >= max_cycles
       IN  \E ex_result \in {Ex(decode, src_a, src_b, src_c)} :
           \E mr \in {MemStage(decode.mem_op, mem, ex_result, src_c)} :
           \E dst_data \in {IF decode.mem_op # MEM_OP_NONE THEN mr.val
                             ELSE ex_result} :
           /\ lane' = [vector_idx_a |-> idx_a, src_a |-> src_a, src_b |-> src_b,
                       src_c |-> src_c, ex_result |-> ex_result,
                       mem_result |-> mr.val, fault |-> mr.fault]
           /\ IF mr.fault # "none"
              THEN /\ phase' = "fault"
                   /\ mem' = mr.mem
                   /\ UNCHANGED <<cpuvars, vector, vec_idx, wb_lanes,
                                  vector_lanes_run>>
              ELSE /\ m_regs' = WriteBackRegs(decode, m_regs, dst_data)
                   /\ m_vregs' = WriteBackVregs(decode, m_vregs, vec_idx, dst_data)
                   /\ wb_lanes' = IF decode.dst_reg.no # REG_Z
                                  THEN Append(wb_lanes, vec_idx) ELSE wb_lanes
                   /\ vector' = [vector EXCEPT !.addr_offset =
                                    add32(vector.addr_offset, vector.stride)]
                   /\ m_total_cycle_count' = count
                   /\ vector_lanes_run' = IF vector.is_vector_op
                                           THEN vector_lanes_run + 1
                                           ELSE vector_lanes_run
                   /\ m_terminate_requested' = (m_terminate_requested \/ limit)
                   /\ mem' = IF limit THEN mr.mem ELSE update_mc1_clkcnt(mr.mem, count)
                   /\ vec_idx' = IF limit THEN vec_idx ELSE vec_idx + 1
                   /\ phase' = IF ~limit /\ vec_idx + 1 < num_vector_loops
                               THEN "lanes" ELSE "tail"
                   /\ UNCHANGED <<m_fetched_instr_count, m_vector_loop_count,
                                  m_syscalls>>
    /\ UNCHANGED <<m_size, host_be, ram_ret, max_cycles, decode, next_pc, pc,
                   iword, cycles_at_fetch, exit_trap_args, ret, unitvars>>

\* After the vector loop: the vector-loop count and the PC update.
PcUpdate ==
    /\ phase = "tail"
    /\ m_vector_loop_count' = IF vector.is_vector_op
                              THEN m_vector_loop_count + num_vector_loops
                              ELSE m_vector_loop_count
    /\ m_regs' = [m_regs EXCEPT ![REG_PC] = next_pc]
    /\ phase' = "loop"
    /\ UNCHANGED <<ramvars, m_vregs, m_fetched_instr_count, m_total_cycle_count,
                   m_terminate_requested, m_syscalls, max_cycles, decode, vector,
                   next_pc, pc, iword, vec_idx, lane, wb_lanes, cycles_at_fetch,
                   vector_lanes_run, exit_trap_args, ret, unitvars>>

Next ==
    \/ \E a \in StartAddrs, c \in MaxCycleArgs : Run(a, c)
    \/ Terminate
    \/ RunReturn
    \/ Trap
    \/ Fetch
    \/ Lane
    \/ PcUpdate

Spec == Init /\ [][Next]_vars

\* The interpreter thread keeps being scheduled: each step of run that can be
\* taken is eventually taken.  Nothing is assumed of the callers of run and
\* terminate.
\* run is sequential, so its steps are one action to the scheduler.
RunStep == RunReturn \/ Trap \/ Fetch \/ Lane \/ PcUpdate

\* The programs terminate() is raced against: a vector instruction of four
\* lanes, a guest that exits, a load outside RAM, an endless loop.
TerminatePrograms ==
    {ProgVector(4, 3),
     <<I_LDI(1, 42), I_JL_TRAP(ROUTINE_EXIT), I_LDI(2, 7), I_LDI(3, 9)>>,
     ProgMem(MEM_OP_LOAD32, 64),
     ProgBranchBack}

InitTerminate ==
    /\ m_size = <<64, 0, 0, 0>>
    /\ host_be = FALSE
    /\ \E prog \in TerminatePrograms : mem = LoadWords(EmptyMem, ZeroW, prog)
    /\ ram_ret = RamRet0
    /\ ResetCpu
    /\ RunLocals0
    /\ alu = Alu0
    /\ tracer = Tracer0
    /\ perf = Perf0

SpecFair == InitTerminate /\ [][Next]_vars /\ WF_vars(RunStep)


----------------------------------------------------------------------------
(* ram_t on its own: direct calls of its loads, stores and valid_range.    *)

RamAddrs == {<<0, 0>>, <<0, 2>>, <<0, 3>>, <<0, 4>>, <<0, 62>>, <<0, 64>>,
             <<65535, 65532>>, <<65535, 65535>>}
RamValues == {<<4660, 22136>>, <<33023, 42435>>}
RamSizeArgs == {<<0, 0>>, <<0, 1>>, <<0, 2>>, <<0, 4>>, <<0, 64>>,
                <<65535, 65535>>}

\* At most MaxRamOps calls are followed.
MaxRamOps == 2

InitRam ==
    /\ m_size \in RamSizes
    /\ host_be \in BOOLEAN
    /\ mem = EmptyMem
    /\ ram_ret = RamRet0
    /\ ResetCpu
    /\ RunLocals0
    /\ alu = Alu0
    /\ tracer = Tracer0
    /\ perf = Perf0

RamCall(op, a, arg, r) ==
    /\ ram_ret.n < MaxRamOps
    /\ mem' = r.mem
    /\ ram_ret' = [op |-> op, addr |-> a, arg |-> arg, fault |-> r.fault,
                   val |-> r.val, ok |-> r.fault = "none", before |-> mem,
                   n |-> ram_ret.n + 1]
    /\ UNCHANGED <<m_size, host_be, cpuvars, runvars, unitvars>>

RamStore8 == \E a \in RamAddrs, v \in RamValues :
                RamCall("store8", a, v, store8(mem, a, v))
RamStore16 == \E a \in RamAddrs, v \in RamValues :
                RamCall("store16", a, v, store16(mem, a, v))
RamStore32 == \E a \in RamAddrs, v \in RamValues :
                RamCall("store32", a, v, store32(mem, a, v))
RamLoad8 == \E a \in RamAddrs : RamCall("load8", a, ZeroW, load8(mem, a))
RamLoad8s == \E a \in RamAddrs :
                RamCall("load8signed", a, ZeroW, load8signed(mem, a))
RamLoad16 == \E a \in RamAddrs : RamCall("load16", a, ZeroW, load16(mem, a))
RamLoad16s == \E a \in RamAddrs :
                RamCall("load16signed", a, ZeroW, load16signed(mem, a))
RamLoad32 == \E a \in RamAddrs : RamCall("load32", a, ZeroW, load32(mem, a))

RamValidRange ==
    \E a \in RamAddrs, sz \in RamSizeArgs :
        /\ ram_ret.n < MaxRamOps
        /\ ram_ret' = [op |-> "valid_range", addr |-> a, arg |-> sz,
                       fault |-> "none", val |-> ZeroW,
                       ok |-> valid_range(a, sz), before |-> mem,
                       n |-> ram_ret.n + 1]
        /\ UNCHANGED <<m_size, host_be, mem, cpuvars, runvars, unitvars>>

NextRam ==
    \/ RamStore8 \/ RamStore16 \/ RamStore32
    \/ RamLoad8 \/ RamLoad8s \/ RamLoad16 \/ RamLoad16s \/ RamLoad32
    \/ RamValidRange

SpecRam == InitRam /\ [][NextRam]_vars


----------------------------------------------------------------------------
(* The EX stage on its own: one EX operation applied to operands drawn     *)
(* from small sets, and an extract applied to the result of a make.        *)

\* Operands A: lane extremes at the three widths and mixed lanes.
AluA == {ZeroW, <<0, 1>>, <<0, 65>>, <<0, 127>>, <<0, 128>>, <<0, 255>>,
         <<32767, 65535>>, <<32768, 0>>, OnesW, <<4, 6>>, <<256, 0>>,
         <<32895, 32769>>, <<4660, 22136>>, <<65408, 127>>}

\* Operands B: divisors with zero lanes, addends, and bit-field control words
\* (32-bit and 16-bit lanes: width << 8 | offset; 8-bit lanes: width << 4 |
\* offset).
AluB == {ZeroW, <<0, 1>>, OnesW, <<2, 0>>, <<257, 257>>, <<32768, 0>>,
         <<0, 8>>, <<0, 2052>>, <<0, 2076>>, <<0, 4112>>, <<13364, 13364>>,
         <<14080, 13312>>, <<3076, 768>>}

\* Operands C: the CRC state.
AluC == {ZeroW, OnesW}

AluOps == {EX_OP_EBF, EX_OP_MKBF, EX_OP_DIV, EX_OP_DIVU, EX_OP_REM, EX_OP_REMU,
           EX_OP_ADDS, EX_OP_ADDSU, EX_OP_SUBS, EX_OP_SUBSU, EX_OP_CRC32C}

InitAlu ==
    /\ m_size = <<0, 0, 1, 0>>
    /\ host_be = FALSE
    /\ mem = EmptyMem
    /\ ram_ret = RamRet0
    /\ ResetCpu
    /\ RunLocals0
    /\ \E a \in AluA, b \in AluB, c \in AluC, pm \in 0..3 :
          alu = [Alu0 EXCEPT !.a = a, !.b = b, !.c = c, !.pm = pm]
    /\ tracer = Tracer0
    /\ perf = Perf0

\* The EX switch for ex_op on src_a, src_b, src_c; an operation that C++
\* leaves undefined either faults or gives the wrapped result.
AluApply(ex_op, src_a) ==
    LET d == [Decode0 EXCEPT !.ex_op = ex_op, !.packed_mode = alu.pm]
    IN  /\ \E fault \in IF ExUndefined(d, src_a, alu.b) THEN BOOLEAN ELSE {FALSE} :
              alu' = [alu EXCEPT !.op = ex_op,
                                 !.res = IF fault THEN ZeroW
                                         ELSE Ex(d, src_a, alu.b, alu.c),
                                 !.fault = fault,
                                 !.n = alu.n + 1]
        /\ UNCHANGED <<ramvars, cpuvars, runvars, tracer, perf>>

AluEx == \E ex_op \in AluOps : alu.n = 0 /\ AluApply(ex_op, alu.a)

\* ebf applied to the result of mkbf, with the same control word.
AluExtractMade ==
    /\ alu.n = 1 /\ alu.op = EX_OP_MKBF
    /\ AluApply(EX_OP_EBF, alu.res)

NextAlu == AluEx \/ AluExtractMade

SpecAlu == InitAlu /\ [][NextAlu]_vars


----------------------------------------------------------------------------
(* The debug trace on its own: the constructor, the append of each lane    *)
(* of the vector loop, and the destructor.                                 *)

MaxLanes == 260

\* cpu_t::cpu_t: with tracing configured the file is opened, which may fail,
\* and m_enable_tracing is set either way.
InitTrace ==
    /\ m_size = <<0, 0, 1, 0>>
    /\ host_be = FALSE
    /\ mem = EmptyMem
    /\ ram_ret = RamRet0
    /\ ResetCpu
    /\ RunLocals0
    /\ alu = Alu0
    /\ \E trace_enabled \in BOOLEAN, opened \in BOOLEAN :
          /\ opened => trace_enabled
          /\ tracer = [Tracer0 EXCEPT !.m_enable_tracing = trace_enabled,
                                      !.is_open = opened,
                                      !.opened = opened]
    /\ perf = Perf0

\* A lane of the vector loop: "Debug trace (part 2)" appends the lane's
\* record, which part 1 marked valid, when tracing is on.
TraceLane ==
    /\ ~tracer.destroyed
    /\ tracer.lanes < MaxLanes
    /\ LET t == [tracer EXCEPT !.lanes = @ + 1]
       IN  tracer' = IF t.m_enable_tracing
                     THEN append_debug_trace(t, TRUE, t.lanes)
                     ELSE t
    /\ UNCHANGED <<ramvars, cpuvars, runvars, alu, perf>>

\* cpu_t::~cpu_t
Teardown ==
    /\ ~tracer.destroyed
    /\ tracer' = [(IF tracer.is_open THEN flush_debug_trace_buffer(tracer)
                   ELSE tracer)
                    EXCEPT !.is_open = FALSE, !.destroyed = TRUE]
    /\ UNCHANGED <<ramvars, cpuvars, runvars, alu, perf>>

NextTrace == TraceLane \/ Teardown

SpecTrace == InitTrace /\ [][NextTrace]_vars


----------------------------------------------------------------------------
(* perf_symbols_t on its own: load, then the add_ref of each lane.         *)

SymbolAddrs == {<<0, 256>>, <<0, 512>>, <<0, 768>>}
RefAddrs ==
    {ZeroW, <<0, 255>>, <<0, 256>>, <<0, 336>>, <<0, 512>>, <<0, 767>>,
     <<0, 768>>, <<1, 0>>, <<65535, 65534>>}
MaxRefs == 3

\* The simulator started with or without a symbol file.
InitPerf ==
    /\ m_size = <<0, 0, 1, 0>>
    /\ host_be = FALSE
    /\ mem = EmptyMem
    /\ ram_ret = RamRet0
    /\ ResetCpu
    /\ RunLocals0
    /\ alu = Alu0
    /\ tracer = Tracer0
    /\ \/ perf = Perf0
       \/ \E file_syms \in SUBSET SymbolAddrs : perf = load(Perf0, file_syms)

\* m_perf_symbols.add_ref(m_regs[REG_PC]) of a lane.
AddRef ==
    /\ perf.n < MaxRefs
    /\ \E addr \in RefAddrs :
          perf' = [add_ref(perf, addr) EXCEPT !.n = @ + 1, !.addr = addr,
                                             !.before = perf.m_symbols]
    /\ UNCHANGED <<ramvars, cpuvars, runvars, alu, tracer>>

NextPerf == AddRef

SpecPerf == InitPerf /\ [][NextPerf]_vars


----------------------------------------------------------------------------
(* Properties of cpu_simple_t::run, stated for Spec.                       *)

\* A step of the vector loop, one that fetched an instruction, and the
\* cycle limit having ended the current instruction's loop.
LaneDone == Lane /\ phase' # "fault"
FetchDone == Fetch /\ phase' # "fetch_fault"
CutByLimit == max_cycles >= 0 /\ m_total_cycle_count >= max_cycles
               /\ m_total_cycle_count > cycles_at_fetch

\* min(VL, N) as the running instruction read it.
UsedLength == actual_vector_len(m_regs[REG_VL], NUM_VECTOR_ELEMENTS, FALSE)

\* C1: in every reachable state of the interpreter scalar register R0 holds
\* 0: no write-back, link-register write or syscall result stores to it.
C1_R0IsZero == m_regs[REG_Z] = ZeroW

\* A lane of an instruction that names R0 as its destination has completed
\* with a non-zero result, after a syscall trap returned a result.
C1_Witness ==
    /\ phase = "tail"
    /\ reg1_is_dst(iword) /\ reg1(iword) = REG_Z
    /\ m_total_cycle_count > cycles_at_fetch
    /\ (IF decode.mem_op # MEM_OP_NONE THEN lane.mem_result ELSE lane.ex_result)
          # ZeroW
    /\ m_regs[1] = OnesW

\* C2: the write-back never writes R32 (PC): during all lanes of an
\* instruction PC equals the address the instruction was fetched from, and
\* PC changes only at the start of run, by the trap return (PC := LR) and by
\* the final next-PC assignment.
C2_PcOnlyByTrapAndNextPc ==
    [][/\ (phase' \in {"lanes", "tail"} => m_regs'[REG_PC] = pc')
       /\ (Lane => m_regs'[REG_PC] = m_regs[REG_PC])
       /\ (m_regs'[REG_PC] # m_regs[REG_PC] =>
              \/ phase = "idle" /\ phase' = "loop"
              \/ phase = "loop" /\ phase' = "fetch"
                    /\ m_regs'[REG_PC] = m_regs'[REG_LR]
              \/ phase = "tail" /\ phase' = "loop"
                    /\ m_regs'[REG_PC] = next_pc)]_vars

\* A store (an instruction without a destination register) fetched from a
\* non-zero address has completed its lane and PC still is that address.
C2_Witness ==
    /\ phase = "tail"
    /\ m_total_cycle_count > cycles_at_fetch
    /\ is_mem_store(iword)
    /\ pc # ZeroW
    /\ m_regs[REG_PC] = pc

\* C3: each executed lane increments the cycle counter by exactly 1 and
\* nothing else changes it during a run; a scalar instruction that completes
\* adds 1 and a vector instruction that completes with effective length L
\* adds L (floor(L/2) lanes in folding mode); the fetched-instruction counter
\* grows by exactly 1 per fetched instruction.
C3_CountersPerLaneAndFetch ==
    [][/\ (LaneDone => m_total_cycle_count' = m_total_cycle_count + 1)
       /\ (m_total_cycle_count' # m_total_cycle_count =>
              LaneDone \/ phase = "idle")
       /\ (FetchDone => m_fetched_instr_count' = m_fetched_instr_count + 1)
       /\ (m_fetched_instr_count' # m_fetched_instr_count =>
              FetchDone \/ phase = "idle")
       /\ (phase = "tail" /\ ~CutByLimit =>
              m_total_cycle_count - cycles_at_fetch =
                 IF is_vector_op(iword)
                 THEN actual_vector_len(m_regs[REG_VL], NUM_VECTOR_ELEMENTS,
                                        is_folding_vector_op(iword))
                 ELSE 1)]_vars

\* A vector instruction of four lanes has completed, as the third fetched
\* instruction, and is about to update the PC.
C3_Witness ==
    /\ phase = "tail"
    /\ is_vector_op(iword) /\ ~is_folding_vector_op(iword)
    /\ UsedLength = 4
    /\ m_total_cycle_count = cycles_at_fetch + 4
    /\ m_fetched_instr_count = 3


\* The lanes 0 .. n-1 in increasing order.
LanesUpTo(n) == [i \in 1..n |-> i - 1]

\* The number of lanes of the running vector instruction: min(VL, N), halved
\* when folding.
LaneCount == actual_vector_len(m_regs[REG_VL], NUM_VECTOR_ELEMENTS,
                               is_folding_vector_op(iword))

\* What the running lane hands to WB.
DstData(l) == IF decode.mem_op # MEM_OP_NONE THEN l.mem_result ELSE l.ex_result

VectorWithDst == is_vector_op(iword) /\ decode.dst_reg.no # REG_Z

\* C4 as stated: every vector instruction with a destination other than
\* register 0 ends, in every run, with exactly L lane write-backs (floor(L/2)
\* when folding) to lanes 0..count-1 in increasing order.
C4_Original ==
    phase \in {"tail", "fault"} /\ VectorWithDst => wb_lanes = LanesUpTo(LaneCount)

\* C4: a vector instruction with a destination other than register 0 writes
\* back lanes 0, 1, 2, ... in increasing order, each to its own element of the
\* destination vector register and at most L of them (floor(L/2) when
\* folding); it makes exactly that many write-backs when it runs to its end,
\* that is when neither the cycle limit nor a memory fault ends its loop.
C4_LanesInOrderUnlessCut ==
    [][/\ (phase' \in {"lanes", "tail", "fault"} /\ VectorWithDst' =>
              /\ wb_lanes' = LanesUpTo(Len(wb_lanes'))
              /\ Len(wb_lanes') <= LaneCount'
              /\ (phase' = "tail" /\ ~CutByLimit' =>
                     Len(wb_lanes') = LaneCount'))
       /\ (LaneDone /\ VectorWithDst =>
              /\ wb_lanes' = Append(wb_lanes, vec_idx)
              /\ VGet(m_vregs', decode.dst_reg.no, vec_idx) = DstData(lane')
              /\ \A x \in (DOMAIN m_vregs \cup DOMAIN m_vregs')
                            \ {<<decode.dst_reg.no, vec_idx>>} :
                     VGet(m_vregs', x[1], x[2]) = VGet(m_vregs, x[1], x[2]))]_vars

\* A vector instruction over VL = 16 has written back all sixteen lanes.
C4_Witness ==
    /\ phase = "tail"
    /\ VectorWithDst /\ ~CutByLimit
    /\ LaneCount = NUM_VECTOR_ELEMENTS
    /\ wb_lanes = LanesUpTo(NUM_VECTOR_ELEMENTS)
    /\ VGet(m_vregs, decode.dst_reg.no, NUM_VECTOR_ELEMENTS - 1) # ZeroW

FoldingLane == Lane /\ vector.is_vector_op /\ vector.folding

\* C5 as stated: in iteration i of a folding vector instruction source
\* operand A is read from element (used + i), used = min(VL, N).
C5_Original ==
    [][FoldingLane /\ decode.src_reg_a.is_vector =>
          /\ lane'.vector_idx_a = UsedLength + vec_idx
          /\ lane'.src_a = VGet(m_vregs, decode.src_reg_a.no,
                                UsedLength + vec_idx)]_vars

\* C5: in a folding vector instruction with used = min(VL, N) the loop runs
\* floor(used/2) times and in iteration i source operand A is read from
\* element (floor(used/2) + i) of its vector register, while operand B and
\* the destination use element i.
C5_FoldingReadsUpperHalf ==
    [][/\ (phase' \in {"lanes", "tail"} /\ is_folding_vector_op(iword') =>
              /\ vector'.vector_len = UsedLength' \div 2
              /\ vec_idx' <= UsedLength' \div 2
              /\ (phase' = "lanes" => vec_idx' < UsedLength' \div 2)
              /\ (phase' = "tail" /\ ~CutByLimit' =>
                     vec_idx' = UsedLength' \div 2))
       /\ (FoldingLane =>
              /\ (decode.src_reg_a.is_vector =>
                     /\ lane'.vector_idx_a = (UsedLength \div 2) + vec_idx
                     /\ lane'.src_a = VGet(m_vregs, decode.src_reg_a.no,
                                           (UsedLength \div 2) + vec_idx))
              /\ lane'.src_b = VGet(m_vregs, decode.src_reg_b.no, vec_idx)
              /\ (phase' # "fault" /\ decode.dst_reg.no # REG_Z =>
                     VGet(m_vregs', decode.dst_reg.no, vec_idx)
                        = DstData(lane')))]_vars

\* The second lane of a folding add over VL = 4 has read element 3 of
\* operand A and element 1 of operand B and has written element 1.
C5_Witness ==
    /\ phase = "tail"
    /\ is_folding_vector_op(iword) /\ decode.src_reg_a.is_vector
    /\ UsedLength = 4
    /\ vec_idx = 2
    /\ lane.vector_idx_a = 3
    /\ lane.src_a = U32(3) /\ lane.src_b = U32(1)
    /\ VGet(m_vregs, decode.dst_reg.no, 1) = U32(4)

\* Operand B of a class A lane as a scalar-B mode reads it: the running
\* stride offset for a memory operation, else the scalar register.
ScalarOperandB ==
    IF is_mem_op(iword) /\ vector.is_vector_op
    THEN vector.stride = m_regs[reg3(iword)] /\ lane'.src_b = vector.addr_offset
    ELSE lane'.src_b = m_regs[reg3(iword)]

VectorOperandB == lane'.src_b = VGet(m_vregs, reg3(iword), vec_idx)

\* C6 as stated: of the vector modes in bits [15:14] of a class A
\* instruction, 2 reads operand B from lane i of a vector register and 3
\* reads it from the scalar register (or the running stride offset).
C6_Original ==
    [][Lane /\ op_class_A(iword) =>
          /\ (Field(iword, 14, 2) = 2 => VectorOperandB)
          /\ (Field(iword, 14, 2) = 3 => ScalarOperandB)]_vars

\* C6: the vector mode in bits [15:14] of a class A instruction selects
\* 0 = scalar, 1 = folding, 2 = V,S (operand B is the scalar register, or the
\* running stride offset for memory operations), 3 = V,V (operand B is read
\* from lane i of a vector register).
C6_VectorModes ==
    [][Lane /\ op_class_A(iword) =>
          /\ (Field(iword, 14, 2) = 0 =>
                 ~vector.is_vector_op /\ ~decode.dst_reg.is_vector
                 /\ ScalarOperandB)
          /\ (Field(iword, 14, 2) = 1 =>
                 vector.is_vector_op /\ vector.folding /\ VectorOperandB)
          /\ (Field(iword, 14, 2) = 2 =>
                 vector.is_vector_op /\ ~vector.folding /\ ScalarOperandB)
          /\ (Field(iword, 14, 2) = 3 =>
                 vector.is_vector_op /\ ~vector.folding /\ VectorOperandB)]_vars

\* The third lane of a class A add in mode 2 has added scalar register 1
\* (100) to element 2 of vector register 1.
C6_Witness ==
    /\ phase = "tail"
    /\ op_class_A(iword) /\ Field(iword, 14, 2) = 2 /\ ~is_mem_op(iword)
    /\ vec_idx = 3
    /\ lane.src_a = U32(2) /\ lane.src_b = U32(100)
    /\ lane.ex_result = U32(102)


\* a + size <= m_size, for an address and a size of 32 bits each, computed
\* in 64 bits (no wrap-around).
FitsInRam(addr, size) == Leq64(Add64(U64ofW(addr), U64ofW(size)), m_size)

\* The size in bytes of the access a MEM operation makes (0: none).
AccessSize(mem_op) ==
    CASE mem_op \in {MEM_OP_LOAD8, MEM_OP_LOADU8, MEM_OP_STORE8} -> 1
      [] mem_op \in {MEM_OP_LOAD16, MEM_OP_LOADU16, MEM_OP_STORE16} -> 2
      [] mem_op \in {MEM_OP_LOAD32, MEM_OP_STORE32} -> 4
      [] OTHER -> 0

\* A store, or a load of more than one byte.
CheckedAccess(mem_op) ==
    mem_op \in {MEM_OP_STORE8, MEM_OP_STORE16, MEM_OP_STORE32,
                MEM_OP_LOAD16, MEM_OP_LOADU16, MEM_OP_LOAD32}

Misplaced(addr, size) ==
    \* size divides 2^16, so the low half decides the alignment
    ~FitsInRam(addr, U32(size)) \/ Lo(addr) % size # 0

\* C7: a store8/16/32 or multi-byte load whose address is outside the RAM
\* range or not a multiple of the access size raises a fault before any byte
\* of RAM is modified: RAM after the fault equals RAM before the access, and
\* the faulting lane writes no register, does not increment the cycle counter
\* and does not advance PC.
C7_FaultBeforeSideEffects ==
    [][/\ (Lane /\ CheckedAccess(decode.mem_op)
                /\ Misplaced(lane'.ex_result, AccessSize(decode.mem_op)) =>
              phase' = "fault")
       /\ (Lane /\ phase' = "fault" =>
              /\ lane'.fault \in {"bad_addr", "bad_align"}
              /\ mem' = mem
              /\ m_regs' = m_regs
              /\ m_vregs' = m_vregs
              /\ wb_lanes' = wb_lanes
              /\ m_total_cycle_count' = m_total_cycle_count
              /\ m_regs'[REG_PC] = pc)
       /\ (phase = "fault" => UNCHANGED <<mem, cpuvars>>)]_vars

\* A store32 of a non-zero word to the misaligned address 5, inside RAM and
\* over non-zero bytes, has faulted as the third instruction.
C7_Witness ==
    /\ phase = "fault"
    /\ decode.mem_op = MEM_OP_STORE32
    /\ lane.fault = "bad_align"
    /\ lane.ex_result = U32(5)
    /\ lane.src_c # ZeroW
    /\ m_total_cycle_count = 2
    /\ m_regs[REG_PC] = U32(8)

\* C10 as stated: once the EXIT trap has set the terminate flag no further
\* instruction is fetched or executed: the fetched-instruction counter, the
\* cycle counter, all registers other than PC and all of RAM stay as they
\* were when the trap was taken.
C10_Original ==
    [][m_syscalls.terminate =>
          /\ m_fetched_instr_count' = m_fetched_instr_count
          /\ m_total_cycle_count' = m_total_cycle_count
          /\ \A r \in 0..(NUM_REGS - 1) \ {REG_PC} : m_regs'[r] = m_regs[r]
          /\ m_vregs' = m_vregs
          /\ mem' = mem]_vars


----------------------------------------------------------------------------
(* Properties of ram_t, stated for SpecRam.                                *)

StoreSize(op) == CASE op = "store8" -> 1 [] op = "store16" -> 2
                   [] op = "store32" -> 4 [] OTHER -> 0

\* C8 as stated: valid_range(addr, size) is true exactly when
\* addr + size <= RAM_SIZE, computed without wrap-around, for every addr and
\* size, size = 0 and addr = RAM_SIZE included.
C8_Original ==
    ram_ret.op = "valid_range" =>
        (ram_ret.ok <=> FitsInRam(ram_ret.addr, ram_ret.arg))

\* C9: for every in-range aligned address a and value v, after store8(a,v)
\* load8(a) = v & 0xFF, after store16(a,v) load16(a) = v & 0xFFFF, after
\* store32(a,v) load32(a) = v; multi-byte stores are little-endian (byte k of
\* v is at a+k) and bytes outside [a, a+size) are unchanged.
C9_StoreLoadRoundTrip ==
    LET op == ram_ret.op
        a == ram_ret.addr
        v == ram_ret.arg
        n == StoreSize(op)
    IN  n > 0 =>
          /\ (FitsInRam(a, U32(n)) /\ Lo(a) % n = 0 => ram_ret.ok)
          /\ (ram_ret.ok =>
                /\ (op = "store8" =>
                      load8(mem, a) = RamRes("none", <<0, Lo(v) % 256>>, mem))
                /\ (op = "store16" =>
                      load16(mem, a) = RamRes("none", <<0, Lo(v)>>, mem))
                /\ (op = "store32" =>
                      load32(mem, a) = RamRes("none", v, mem))
                /\ \A k \in 0..(n - 1) :
                      load8(mem, AddrPlus(a, k))
                         = RamRes("none", <<0, ByteOf(v, k)>>, mem)
                /\ \A x \in (DOMAIN mem \cup DOMAIN ram_ret.before)
                               \ {AddrPlus(a, k) : k \in 0..(n - 1)} :
                      Peek(mem, x) = Peek(ram_ret.before, x))

\* On a big-endian host a store32 of 0x80ffa5c3 to the last word of a 4 GiB
\* RAM has followed an earlier store.
C9_Witness ==
    /\ host_be
    /\ ram_ret.op = "store32" /\ ram_ret.ok
    /\ ram_ret.addr = <<65535, 65532>>
    /\ ram_ret.arg = <<33023, 42435>>
    /\ ram_ret.before # EmptyMem
    /\ Peek(mem, <<65535, 65532>>) = 195


----------------------------------------------------------------------------
(* The trap window, the cycle limit and the vector-loop counter (Spec).    *)

\* The instruction cycle starts with PC in the 64 KiB band 0xffff0000 ..
\* 0xffffffff.
PcInHighBand == Hi(m_regs[REG_PC]) = 65535

CycleStart == phase = "loop" /\ LoopCondition

\* C11 as stated: a syscall trap is taken exactly when PC lies in
\* [0xFFFF0000, 0xFFFF0000 + 4*N_syscalls); for every other PC the
\* interpreter fetches the word at PC and does not replace PC by LR.
C11_Original ==
    [][CycleStart /\ (Trap \/ Fetch) =>
          (Trap <=> PcInHighBand /\ Lo(m_regs[REG_PC]) < 4 * ROUTINE_LAST)]_vars

\* C11: a syscall trap is taken exactly when the upper 16 bits of PC are
\* 0xFFFF (the whole band 0xFFFF0000..0xFFFFFFFF, whatever the alignment):
\* the routine index is (PC - 0xFFFF0000) >> 2, an index of N_syscalls or
\* more invokes no routine (registers and syscall state unchanged) and PC is
\* replaced by LR all the same; for every other PC the interpreter fetches
\* the word at PC, invokes no routine and does not replace PC by LR.
C11_TrapInHighBand ==
    [][CycleStart /\ (Trap \/ Fetch) =>
          /\ (Trap <=> PcInHighBand)
          /\ (PcInHighBand =>
                /\ phase' = "fetch"
                /\ m_regs'[REG_PC] = m_regs'[REG_LR]
                /\ m_fetched_instr_count' = m_fetched_instr_count
                /\ (Lo(m_regs[REG_PC]) \div 4 >= ROUTINE_LAST =>
                      /\ m_syscalls' = m_syscalls
                      /\ \A r \in 0..(NUM_REGS - 1) \ {REG_PC} :
                            m_regs'[r] = m_regs[r])
                /\ (Lo(m_regs[REG_PC]) \div 4 = ROUTINE_EXIT =>
                      m_syscalls' = [terminate |-> TRUE,
                                     exit_code |-> m_regs[1]]))
          /\ (~PcInHighBand =>
                /\ m_syscalls' = m_syscalls
                /\ (phase' # "fetch_fault" =>
                      /\ pc' = m_regs[REG_PC]
                      /\ iword' = load32(mem, m_regs[REG_PC]).val
                      /\ m_regs'[REG_PC] = m_regs[REG_PC]))]_vars

\* The cycle that started at PC = 0xFFFF0052 (routine index 20, beyond the
\* last routine, and not word aligned) has taken the trap: PC is LR, no
\* routine ran and nothing has been fetched yet.
C11_Witness ==
    /\ phase = "fetch"
    /\ m_fetched_instr_count = 0
    /\ ~m_syscalls.terminate
    /\ m_regs[REG_PC] = m_regs[REG_LR]
    /\ m_regs[REG_PC] = ZeroW

\* C12 as stated: with max_cycles >= 0 the total cycle counter at return
\* from run never exceeds max_cycles.
C12_Original ==
    phase = "done" /\ max_cycles >= 0 => m_total_cycle_count <= max_cycles

\* The lanes that the last fetched instruction has executed.
LanesOfInstruction == m_total_cycle_count - cycles_at_fetch

\* The lanes of its vector loop that the last instruction did not execute
\* (non-zero only when the cycle limit broke the loop).
LanesSkipped ==
    IF vector.is_vector_op THEN num_vector_loops - LanesOfInstruction ELSE 0

\* C13 as stated: at the end of every instruction cycle and at return from
\* run the vector-loop counter equals the number of lanes that vector
\* instructions have executed so far.
C13_Original ==
    phase \in {"loop", "done"} => m_vector_loop_count = vector_lanes_run

\* What the code maintains: the vector-loop counter is the sum of the vector lengths of the
\* vector instructions that reached the end of their instruction cycle: at
\* the end of every instruction cycle and at return from run it equals the
\* number of lanes executed by vector instructions plus the lanes that the
\* last vector instruction skipped because the cycle limit broke its loop
\* (and so equals the lanes executed when no vector loop was cut); only the
\* end of a vector instruction's cycle (and the reset in run) changes it,
\* scalar instructions never do.
VectorLoopCountIsSumOfLengths ==
    [][/\ (phase' \in {"loop", "done"} =>
              /\ m_vector_loop_count' = vector_lanes_run' + LanesSkipped'
              /\ (~CutByLimit' => m_vector_loop_count' = vector_lanes_run'))
       /\ (m_vector_loop_count' # m_vector_loop_count =>
              \/ phase = "idle" /\ m_vector_loop_count' = 0
              \/ /\ PcUpdate /\ vector.is_vector_op
                 /\ m_vector_loop_count' =
                        m_vector_loop_count + vector.vector_len)
       /\ (PcUpdate /\ ~vector.is_vector_op =>
              m_vector_loop_count' = m_vector_loop_count)]_vars

\* run has returned after the cycle limit broke a vector loop of four lanes
\* at its first lane, with a scalar instruction executed before it: the
\* counter is 4 and one lane was executed by a vector instruction.
VectorLoopCountAfterCut ==
    /\ phase = "done"
    /\ max_cycles = 3
    /\ vector.is_vector_op
    /\ m_vector_loop_count = 4
    /\ vector_lanes_run = 1
    /\ m_total_cycle_count = 3


----------------------------------------------------------------------------
(* Vector stores and loads with a scalar stride (Spec).                    *)

VectorStore ==
    /\ vector.is_vector_op
    /\ decode.mem_op \in {MEM_OP_STORE8, MEM_OP_STORE16, MEM_OP_STORE32}

\* Element i of vector register r, read from the sparse register file.
VectorElementIn(vregs, r, i) ==
    IF <<r, i>> \in DOMAIN vregs THEN vregs[<<r, i>>] ELSE ZeroW

VectorElement(r, i) == VectorElementIn(m_vregs, r, i)

\* What a store of mem_op leaves at addr in memory m, and what it keeps of
\* the stored value w.
StoredAt(mem_op, m, addr) ==
    CASE mem_op = MEM_OP_STORE8 -> load8(m, addr).val
      [] mem_op = MEM_OP_STORE16 -> load16(m, addr).val
      [] OTHER -> load32(m, addr).val

StoredPart(mem_op, w) ==
    CASE mem_op = MEM_OP_STORE8 -> <<0, Lo(w) % 256>>
      [] mem_op = MEM_OP_STORE16 -> <<0, Lo(w)>>
      [] OTHER -> w

\* C14: within one vector store instruction the lanes execute in increasing
\* index order (lane vec_idx runs when exactly the lanes 0..vec_idx-1 have
\* run, and the next lane is vec_idx + 1) and each lane's store is in RAM
\* when the lane ends, before the next lane executes: RAM at the lane's
\* address then holds the lane's element of the source vector register.
\* When all lanes store to the same address (stride 0) RAM therefore holds,
\* at the end of the loop, the value of the highest-indexed lane that ran.
C14_StoreLanesInOrder ==
    [][Lane /\ VectorStore =>
          /\ vec_idx = LanesOfInstruction
          /\ vec_idx < vector.vector_len
          /\ lane'.src_c = VectorElement(decode.src_reg_c.no, vec_idx)
          /\ (phase' # "fault" =>
                /\ StoredAt(decode.mem_op, mem', lane'.ex_result) =
                       StoredPart(decode.mem_op, lane'.src_c)
                /\ (phase' = "lanes" => vec_idx' = vec_idx + 1)
                /\ (phase' = "tail" /\ ~CutByLimit' =>
                       vec_idx + 1 = vector.vector_len)
                /\ (phase' = "tail" /\ vector.stride = ZeroW =>
                       StoredAt(decode.mem_op, mem', m_regs[decode.src_reg_a.no])
                          = StoredPart(decode.mem_op,
                               VectorElement(decode.src_reg_c.no, vec_idx))))]_vars

\* A vector store of four lanes with stride 0 has run to its end: the word
\* at the base address 40 is element 3 of the source register, 9.
C14_Witness ==
    /\ phase = "tail"
    /\ VectorStore /\ decode.mem_op = MEM_OP_STORE32
    /\ vector.stride = ZeroW
    /\ vector.vector_len = 4 /\ LanesOfInstruction = 4
    /\ m_regs[2] = U32(40)
    /\ VectorElement(1, 0) = ZeroW /\ VectorElement(1, 3) = U32(9)
    /\ load32(mem, U32(40)).val = U32(9)

\* A lane of a vector load or store that takes its index from a stride.
StridedVectorAccess ==
    /\ vector.is_vector_op
    /\ decode.mem_op # MEM_OP_NONE
    /\ ~decode.src_reg_b.is_vector

\* The stride the instruction word names: the immediate of a class C
\* instruction, the scalar register reg3 of a class A instruction.
NamedStride ==
    IF op_class_C(iword) THEN decode_imm15(iword) ELSE m_regs[reg3(iword)]

\* base + (i * stride) * 2^packed_mode mod 2^32 for lane i.
StridedAddress(i) ==
    add32(m_regs[reg2(iword)],
          MulSmall(MulSmall(NamedStride, i), 2 ^ packed_mode(iword)))

\* C15: lane i of a vector load or store with scalar-stride addressing
\* accesses the address base + (i * stride) * 2^packed_mode mod 2^32, where
\* base is the scalar source-A register and stride is the immediate (class C)
\* or the scalar register read when the instruction starts (class A): the
\* address the lane computes is that one, the stride held for the instruction
\* is the named one, a load returns what RAM holds there and writes it to
\* element i of the destination, a store puts its value there.
C15_StridedLaneAddress ==
    [][Lane /\ StridedVectorAccess =>
          /\ vector.stride = NamedStride
          /\ lane'.ex_result = StridedAddress(vec_idx)
          /\ (phase' = "fault" <=>
                MemStage(decode.mem_op, mem, StridedAddress(vec_idx),
                         lane'.src_c).fault # "none")
          /\ (phase' # "fault" /\ ~VectorStore =>
                /\ lane'.mem_result =
                       MemStage(decode.mem_op, mem, StridedAddress(vec_idx),
                                lane'.src_c).val
                /\ (decode.dst_reg.no # REG_Z =>
                       VectorElementIn(m_vregs', decode.dst_reg.no, vec_idx) =
                          lane'.mem_result))
          /\ (phase' # "fault" /\ VectorStore =>
                StoredAt(decode.mem_op, mem', StridedAddress(vec_idx)) =
                   StoredPart(decode.mem_op, lane'.src_c))]_vars

\* A class C word load with VL = 4 and stride 4 has filled elements 0..3 of
\* vector register 3 from the four consecutive words at 40, 44, 48 and 52.
C15_Witness ==
    /\ phase = "tail"
    /\ StridedVectorAccess /\ op_class_C(iword)
    /\ decode.mem_op = MEM_OP_LOAD32 /\ decode.dst_reg.no = 3
    /\ vector.stride = U32(4) /\ m_regs[2] = U32(40)
    /\ vector.vector_len = 4 /\ LanesOfInstruction = 4
    /\ \A i \in 0..3 :
          /\ load32(mem, U32(40 + 4 * i)).val = U32(259 * i)
          /\ VectorElement(3, i) = U32(259 * i)


----------------------------------------------------------------------------
(* J and JL (Spec).                                                        *)

\* The instruction just fetched is a j or a jl.
JumpFetched == Fetch /\ phase' # "fetch_fault" /\ is_j(iword')

\* The base of the jump target: the address of the instruction when its
\* register field is 31, else the register the field names, as it is before
\* the instruction.
JumpBase ==
    IF reg1(iword') = 31 THEN m_regs[REG_PC] ELSE m_regs[reg1(iword')]

\* C20: a JL at address P sets LR := P + 4 and PC := base + imm21, where base
\* is P when the register field selects PC and otherwise the value the named
\* register held before the link write (a JL whose base is LR jumps relative
\* to the old LR); a plain J computes the same target and writes no
\* register.  The target goes to PC at the end of the instruction cycle, and
\* the lane of the instruction changes neither it nor a register.
C20_JumpAndLink ==
    [][/\ (JumpFetched =>
              /\ next_pc' = add32(JumpBase, decode_imm21(iword'))
              /\ (Opcode(iword') = 49 =>
                     /\ m_regs'[REG_LR] = add32(m_regs[REG_PC], U32(4))
                     /\ \A r \in 0..(NUM_REGS - 1) \ {REG_LR} :
                           m_regs'[r] = m_regs[r])
              /\ (Opcode(iword') = 48 => m_regs' = m_regs))
       /\ (Lane /\ is_j(iword) => m_regs' = m_regs /\ next_pc' = next_pc)
       /\ (PcUpdate /\ is_j(iword) =>
              /\ m_regs'[REG_PC] = next_pc
              /\ \A r \in 0..(NUM_REGS - 1) \ {REG_PC} :
                    m_regs'[r] = m_regs[r])]_vars

\* The jl lr,#4 at address 16 has ended its cycle with LR = 4 before it:
\* PC is 4 + 4 = 8 and LR is 20.
C20_Witness ==
    /\ phase = "loop"
    /\ pc = U32(16)
    /\ iword = EncD(49, REG_LR, 1)
    /\ m_regs[REG_PC] = U32(8)
    /\ m_regs[REG_LR] = U32(20)


----------------------------------------------------------------------------
(* The arithmetic kernels of the EX stage (stated for SpecAlu).            *)

\* The lanes of a word in packed mode pm, and lane k as a word.
LaneIndices(pm) ==
    CASE pm = PACKED_BYTE -> 0..3 [] pm = PACKED_HALF_WORD -> 0..1 [] OTHER -> {0}

LaneBits(pm) ==
    CASE pm = PACKED_BYTE -> 8 [] pm = PACKED_HALF_WORD -> 16 [] OTHER -> 32

LaneOf(w, pm, k) ==
    CASE pm = PACKED_BYTE -> <<0, ByteOf(w, k)>>
      [] pm = PACKED_HALF_WORD -> <<0, w[2 - k]>>
      [] OTHER -> w

LaneOnes(pm) == LaneOf(OnesW, pm, 0)

\* One EX operation of the set ops has been applied to alu.a and alu.b.
Applied(ops) == alu.n = 1 /\ alu.op \in ops

\* Every lane with a zero divisor holds all ones after DIV and DIVU, and the
\* dividend's lane after REM and REMU.
ZeroDivisorLanes ==
    \A k \in LaneIndices(alu.pm) :
        LaneOf(alu.b, alu.pm, k) = ZeroW =>
            LaneOf(alu.res, alu.pm, k) =
                IF alu.op \in {EX_OP_DIV, EX_OP_DIVU} THEN LaneOnes(alu.pm)
                ELSE LaneOf(alu.a, alu.pm, k)

\* C16 as stated: DIV and DIVU at every lane width with a zero divisor lane
\* yield all ones in that lane, REM and REMU yield the dividend in that
\* lane, and no div/rem instruction faults for any operands.
C16_Original ==
    Applied({EX_OP_DIV, EX_OP_DIVU, EX_OP_REM, EX_OP_REMU}) =>
        ~alu.fault /\ ZeroDivisorLanes

\* The width and the offset that lane k of control word c names (a width
\* field of 0 is the full lane width).
CtrlWidth(c, pm, k) ==
    LET f == IF pm = PACKED_BYTE THEN (ByteOf(c, k) \div 16) % 8
             ELSE IF pm = PACKED_HALF_WORD THEN (c[2 - k] \div 256) % 16
             ELSE (Lo(c) \div 256) % 32
    IN  IF f = 0 THEN LaneBits(pm) ELSE f

CtrlOffset(c, pm, k) ==
    IF pm = PACKED_BYTE THEN ByteOf(c, k) % 8
    ELSE IF pm = PACKED_HALF_WORD THEN c[2 - k] % 16
    ELSE Lo(c) % 32

\* The word with its low n bits set, 1 <= n <= 32.
LowMask(n) ==
    IF n >= 32 THEN OnesW
    ELSE IF n >= 16 THEN <<2 ^ (n - 16) - 1, 65535>>
    ELSE <<0, 2 ^ n - 1>>

\* The low n bits of lane value x, sign-extended to a lane of pm.
LowBitsSignExtended(x, n, pm) ==
    LET low == and32(x, LowMask(n))
    IN  IF and32(low, shl32(U32(1), n - 1)) # ZeroW
        THEN and32(or32(low, not32(LowMask(n))), LowMask(LaneBits(pm)))
        ELSE low

\* ebf has been applied to mkbf(alu.a, alu.b), with control word alu.b.
RoundTripDone == alu.n = 2 /\ alu.op = EX_OP_EBF

\* C17 as stated: for every x and every control word c (any offset), at each
\* lane width, ebf(mkbf(x, c), c) is the low width(c) bits of x
\* sign-extended to the lane width.
C17_Original ==
    RoundTripDone =>
        \A k \in LaneIndices(alu.pm) :
            LaneOf(alu.res, alu.pm, k) =
                LowBitsSignExtended(LaneOf(alu.a, alu.pm, k),
                                    CtrlWidth(alu.b, alu.pm, k), alu.pm)

\* C17: for every x and every control word c, at each lane width,
\* ebf(mkbf(x, c), c) is the low n bits of x sign-extended to the lane width,
\* where n = width(c) when offset(c) + width(c) does not exceed the lane
\* width, and n = lane width - offset(c) otherwise (mkbf shifts the bits
\* above those out of the lane).
C17_RoundTripInsideLane ==
    RoundTripDone =>
        \A k \in LaneIndices(alu.pm) :
            LET w == CtrlWidth(alu.b, alu.pm, k)
                room == LaneBits(alu.pm) - CtrlOffset(alu.b, alu.pm, k)
            IN  LaneOf(alu.res, alu.pm, k) =
                    LowBitsSignExtended(LaneOf(alu.a, alu.pm, k),
                                        IF w <= room THEN w ELSE room, alu.pm)

\* The 8-bit field at offset 4 of a 32-bit lane, made from 0xff and
\* extracted again: the result is -1.
C17_Witness ==
    /\ RoundTripDone
    /\ alu.pm = 0
    /\ alu.a = <<0, 255>> /\ alu.b = <<0, 2052>>
    /\ alu.res = OnesW

\* The exact sum or difference of two lanes of fewer than 32 bits, clamped
\* to the range of the lane and written as the lane's bits.
ClampedSmall(x, y, is_add, is_signed, bits) ==
    LET S(v) == IF is_signed /\ v >= 2 ^ (bits - 1) THEN v - 2 ^ bits ELSE v
        exact == IF is_add THEN S(x) + S(y) ELSE S(x) - S(y)
        min == IF is_signed THEN -(2 ^ (bits - 1)) ELSE 0
        max == IF is_signed THEN 2 ^ (bits - 1) - 1 ELSE 2 ^ bits - 1
        r == IF exact < min THEN min ELSE IF exact > max THEN max ELSE exact
    IN  <<0, IF r < 0 THEN r + 2 ^ bits ELSE r>>

\* The same for 32-bit lanes, from the wrapped result w: an unsigned sum
\* overflows when it wraps below an operand, an unsigned difference when
\* x < y, a signed sum when the operands agree in sign and the wrapped sum
\* does not, a signed difference when they disagree and the wrapped
\* difference has not the sign of x.
Clamped32(x, y, is_add, is_signed) ==
    LET w == IF is_add THEN add32(x, y) ELSE add32(x, neg32(y))
        neg(v) == Hi(v) >= 32768
        overflow == IF is_add THEN neg(x) = neg(y) /\ neg(w) # neg(x)
                    ELSE neg(x) # neg(y) /\ neg(w) # neg(x)
    IN  IF is_signed
        THEN IF overflow THEN (IF neg(x) THEN <<32768, 0>> ELSE <<32767, 65535>>)
             ELSE w
        ELSE IF is_add THEN (IF Less32(w, x) THEN OnesW ELSE w)
             ELSE (IF Less32(x, y) THEN ZeroW ELSE w)

\* C18: ADDS, SUBS, ADDSU and SUBSU at every lane width return, in every
\* lane, the exact integer sum a + b or difference a - b of the lanes
\* clamped to [INT_MIN, INT_MAX] of the lane width (signed) or
\* [0, UINT_MAX] (unsigned).
C18_SaturatingExact ==
    Applied({EX_OP_ADDS, EX_OP_ADDSU, EX_OP_SUBS, EX_OP_SUBSU}) =>
        /\ ~alu.fault
        /\ \A k \in LaneIndices(alu.pm) :
              LET x == LaneOf(alu.a, alu.pm, k)
                  y == LaneOf(alu.b, alu.pm, k)
                  is_add == alu.op \in {EX_OP_ADDS, EX_OP_ADDSU}
                  is_signed == alu.op \in {EX_OP_ADDS, EX_OP_SUBS}
              IN  LaneOf(alu.res, alu.pm, k) =
                     IF LaneBits(alu.pm) = 32
                     THEN Clamped32(x, y, is_add, is_signed)
                     ELSE ClampedSmall(Lo(x), Lo(y), is_add, is_signed,
                                       LaneBits(alu.pm))

\* adds(0x7FFFFFFF, 1) at 32 bits has returned 0x7FFFFFFF.
C18_Witness ==
    /\ Applied({EX_OP_ADDS})
    /\ alu.pm = 0
    /\ alu.a = <<32767, 65535>> /\ alu.b = <<0, 1>>
    /\ alu.res = <<32767, 65535>>

\* The CRC-32C of one more byte, bit by bit: the reflected Castagnoli
\* polynomial 0x82F63B78, n shifts to go.
RECURSIVE Crc32cBits(_, _)
Crc32cBits(crc, n) ==
    IF n = 0 THEN crc
    ELSE Crc32cBits(IF Lo(crc) % 2 = 1
                    THEN xor32(shr32(crc, 1), <<33526, 15224>>)
                    ELSE shr32(crc, 1), n - 1)

\* The CRC32C byte operation has been applied to data byte 0x41 and state 0.
CrcOfA ==
    /\ Applied({EX_OP_CRC32C})
    /\ alu.pm = 0
    /\ alu.a = <<0, 65>> /\ alu.c = ZeroW

\* C19 as stated: the CRC32C byte operation given the data byte 0x41 and the
\* initial state 0 returns 0xC1D04330.
C19_Original == CrcOfA => alu.res = <<49616, 17200>>

\* C19: the CRC32C byte operation given the data byte 0x41 and the initial
\* state 0 returns 0xB3109EBF; for every state and data byte it returns the
\* state advanced by the byte under the reflected CRC-32C polynomial.
C19_CrcByte ==
    /\ (CrcOfA => alu.res = <<45840, 40639>>)
    /\ (Applied({EX_OP_CRC32C}) /\ alu.pm \in {0, 3} =>
           /\ ~alu.fault
           /\ alu.res = Crc32cBits(xor32(alu.c, <<0, Lo(alu.a) % 256>>), 8))

\* The byte operation on 0x41 with state 0 has returned 0xB3109EBF.
C19_Witness == CrcOfA /\ alu.res = <<45840, 40639>>

----------------------------------------------------------------------------
(* Conditional branches.                                                   *)

\* The b[cc] instruction whose cycle is in progress.
BranchFetched == phase \in {"lanes", "tail"} /\ is_bcc(iword)

\* The condition of b[cc] on the value v, as the instruction set names it.
ConditionHolds(condition, v) ==
    LET bit31 == Field(v, 31, 1) = 1
    IN  CASE condition = 0 -> v = ZeroW                  \* bz
          [] condition = 1 -> v # ZeroW                  \* bnz
          [] condition = 2 -> v = <<65535, 65535>>       \* bs
          [] condition = 3 -> v # <<65535, 65535>>       \* bns
          [] condition = 4 -> bit31                      \* blt
          [] condition = 5 -> ~bit31                     \* bge
          [] condition = 6 -> bit31 \/ v = ZeroW         \* ble
          [] condition = 7 -> ~bit31 /\ v # ZeroW        \* bgt

\* C21: a conditional branch on the register value v is taken iff its
\* condition holds of v (bz: v = 0, bnz: v # 0, bs: v = 0xFFFFFFFF, bns:
\* v # 0xFFFFFFFF, blt: bit 31 set, bge: bit 31 clear, ble: bit 31 set or
\* v = 0, bgt: bit 31 clear and v # 0); the next PC is PC + imm18 when it is
\* taken and PC + 4 otherwise, and the branch writes no scalar or vector
\* register other than the PC.
C21_ConditionalBranch ==
    [][/\ (Fetch /\ phase' # "fetch_fault" /\ is_bcc(iword')) =>
            /\ next_pc' = IF ConditionHolds(Field(iword', 18, 3),
                                            m_regs[reg1(iword')])
                          THEN add32(pc', decode_imm18(iword'))
                          ELSE add32(pc', U32(4))
            /\ pc' = m_regs[REG_PC]
            /\ m_regs' = m_regs /\ m_vregs' = m_vregs
       /\ (Lane /\ is_bcc(iword)) =>
            /\ m_regs' = m_regs /\ m_vregs' = m_vregs
            /\ phase' = "tail"
       /\ (PcUpdate /\ is_bcc(iword)) =>
            /\ m_regs' = [m_regs EXCEPT ![REG_PC] = next_pc]
            /\ m_vregs' = m_vregs]_vars

\* A ble on r1 = 0 was taken: the PC went from 4 to 12, and r2, which the
\* skipped ldi would have set, is still 0.
C21_Witness ==
    /\ phase = "loop"
    /\ is_bcc(iword) /\ Field(iword, 18, 3) = 6
    /\ pc = <<0, 4>> /\ m_regs[1] = ZeroW
    /\ m_regs[REG_PC] = <<0, 12>>
    /\ m_regs[2] = ZeroW

----------------------------------------------------------------------------
(* The value run returns.                                                  *)

\* C22: run returns the argument of the most recent EXIT trap taken during
\* that run (R1 at the time of the trap), and 0 when the run ends through
\* the cycle limit or a terminate request without any EXIT trap taken.
C22_ReturnsExitArgument ==
    phase = "done" =>
        ret = IF exit_trap_args = <<>> THEN ZeroW
              ELSE exit_trap_args[Len(exit_trap_args)]

\* run returned 42, the R1 of the EXIT trap it took.
C22_Witness ==
    /\ phase = "done"
    /\ exit_trap_args = <<(<<0, 42>>)>>
    /\ ret = <<0, 42>>

\* run returned 0 through the cycle limit with 42 in R1 and no EXIT trap.
ReturnedByLimit ==
    /\ phase = "done"
    /\ exit_trap_args = <<>>
    /\ ~m_syscalls.terminate
    /\ max_cycles >= 0 /\ m_total_cycle_count >= max_cycles
    /\ m_regs[1] = <<0, 42>>
    /\ ret = ZeroW

----------------------------------------------------------------------------
(* terminate() from another thread (stated for SpecFair).                  *)

\* run has been entered and has neither returned nor thrown.
Running == phase \in {"loop", "fetch", "lanes", "tail"}

\* run has thrown the exception of a memory fault.
Thrown == phase \in {"fault", "fetch_fault"}

\* C23, as stated: after terminate() while the interpreter is running, the
\* interpreter finishes at most the instruction cycle in progress and run
\* returns.
C23_Original == (Running /\ m_terminate_requested) ~> (phase = "done")

\* Once the flag is set, the loop starts no cycle: a trap is not taken, and
\* an instruction is fetched only as the second half of the cycle whose trap
\* was taken before.
NoNewCycleOnceRequested ==
    [][m_terminate_requested =>
          /\ ~Trap
          /\ (Fetch => phase = "fetch")
          /\ m_terminate_requested']_vars

\* C23: after terminate() while the interpreter is running, the interpreter
\* finishes at most the instruction cycle in progress (at most N lanes),
\* begins no new instruction cycle once it has seen the flag, and run ends:
\* it returns, or it throws when the cycle in progress hits a memory fault.
C23_StopsAfterCycleInProgress ==
    /\ NoNewCycleOnceRequested
    /\ [](LanesOfInstruction <= NUM_VECTOR_ELEMENTS)
    /\ (Running /\ m_terminate_requested) ~> (phase = "done" \/ Thrown)

\* run returned on a terminate() that came while it was running: no cycle
\* limit, no EXIT trap, and four lanes of a vector instruction completed.
C23_Witness ==
    /\ phase = "done"
    /\ m_terminate_requested /\ max_cycles < 0 /\ ~m_syscalls.terminate
    /\ m_fetched_instr_count > 0
    /\ vector.is_vector_op /\ wb_lanes = <<0, 1, 2, 3>>

----------------------------------------------------------------------------
(* The MMIO cycle-counter words.                                           *)

\* CLKCNTLO and CLKCNTHI as the guest reads them, and the two halves of the
\* cycle counter.
ClkCntLo == load32(mem, MMIO_START).val
ClkCntHi == load32(mem, AddrPlus(MMIO_START, 16)).val
CycleCountLo == <<(m_total_cycle_count \div H16) % H16, m_total_cycle_count % H16>>
CycleCountHi == <<0, (m_total_cycle_count \div H16) \div H16>>

\* Between two instruction cycles, or after run returned.
InstructionBoundary == phase \in {"loop", "done"}

\* C24: whenever the MMIO band is inside RAM, at every instruction boundary
\* and at return from run the low MMIO cycle-counter word equals the low 32
\* bits and the high word the high 32 bits of the cycle counter.
C24_Original ==
    (has_mc1_mmio_regs /\ InstructionBoundary) =>
        (ClkCntLo = CycleCountLo /\ ClkCntHi = CycleCountHi)

\* What the code maintains on a little-endian host: the words lag by the one
\* cycle that reached the cycle limit, whose increment is followed by the
\* break and not by update_mc1_clkcnt.
ClockWordsLagOnlyAtLimit ==
    (has_mc1_mmio_regs /\ InstructionBoundary /\ ~host_be) =>
        LET cut == max_cycles >= 0 /\ m_total_cycle_count > 0
                   /\ m_total_cycle_count >= max_cycles
        IN  /\ ClkCntHi = ZeroW
            /\ ClkCntLo = <<0, IF cut THEN m_total_cycle_count - 1
                                 ELSE m_total_cycle_count>>

\* run returned on the cycle limit of 3 with CLKCNTLO = 2.
ClockWordsBehindAtReturn ==
    /\ phase = "done" /\ has_mc1_mmio_regs /\ ~host_be
    /\ max_cycles = 3 /\ m_total_cycle_count = 3
    /\ ClkCntLo = <<0, 2>>

----------------------------------------------------------------------------
(* The debug trace (stated for SpecTrace).                                 *)

\* The records not yet written, in the order of their appends.
PendingRecords ==
    [i \in 1..tracer.m_debug_trace_file_buf_entries |->
        tracer.m_debug_trace_buf[i - 1]]

----------------------------------------------------------------------------
(* Attribution of cycles to symbols (stated for SpecPerf).                 *)

\* The symbol with the greatest start address <= addr in the table syms.
SymbolOf(syms, addr) ==
    CHOOSE i \in 1..Len(syms) :
        /\ ~Less32(addr, syms[i].addr)
        /\ \A j \in 1..Len(syms) :
              ~Less32(addr, syms[j].addr) => ~Less32(syms[i].addr, syms[j].addr)

\* The table after one more cycle of symbol i.
CountedFor(syms, i) == [syms EXCEPT ![i].cycles = @ + 1]

\* The last add_ref had symbols loaded and an address below 0xFFFFFFFF.
AddRefCalled == perf.n > 0 /\ perf.m_has_symbols /\ Less32(perf.addr, OnesW)

\* C26: with symbols loaded, every add_ref(addr) with addr < 0xFFFFFFFF
\* increments the cycle count of exactly one symbol, the one with the greatest
\* start address <= addr, whichever symbol the previous call hit.
C26_Original ==
    AddRefCalled =>
        perf.m_symbols = CountedFor(perf.before, SymbolOf(perf.before, perf.addr))

\* What the code does keep: exactly one symbol is incremented, and it is the
\* symbol of addr or, when addr is the start address of a symbol, the symbol
\* before it in the table.
AttributionOffByOneAtStart ==
    AddRefCalled =>
        LET i == SymbolOf(perf.before, perf.addr)
        IN  \/ perf.m_symbols = CountedFor(perf.before, i)
            \/ /\ i > 1
               /\ perf.addr = perf.before[i].addr
               /\ perf.m_symbols = CountedFor(perf.before, i - 1)

\* An add_ref of the start address of the second file symbol counted for the
\* first one.
CountedForPreviousSymbol ==
    /\ AddRefCalled
    /\ perf.addr = <<0, 512>>
    /\ Len(perf.before) = 4
    /\ perf.before[3].addr = <<0, 512>>
    /\ perf.m_symbols = CountedFor(perf.before, 2)

----------------------------------------------------------------------------
(* The operand order of SUBS and SUBSU (stated for SpecAlu).               *)

\* The EX switch for EX_OP_SUB on a and b in the packed mode pm.
SubOf(a, b, pm) ==
    Ex([Decode0 EXCEPT !.ex_op = EX_OP_SUB, !.packed_mode = pm], a, b, ZeroW)

\* The exact difference x - y of two lanes lies inside the lane's range.
DifferenceInRange(x, y, is_signed, pm) ==
    IF LaneBits(pm) = 32
    THEN Clamped32(x, y, FALSE, is_signed) = add32(x, neg32(y))
    ELSE ClampedSmall(Lo(x), Lo(y), FALSE, is_signed, LaneBits(pm)) =
             <<0, (Lo(x) - Lo(y)) % (2 ^ LaneBits(pm))>>

\* C27: SUBS and SUBSU use the operand order of SUB: in every lane where the
\* exact difference SUB computes lies inside the lane's range, SUBS(a, b) and
\* SUBSU(a, b) equal SUB(a, b), at every lane width.
C27_Original ==
    Applied({EX_OP_SUBS, EX_OP_SUBSU}) =>
        \A k \in LaneIndices(alu.pm) :
            LET x == LaneOf(alu.a, alu.pm, k)
                y == LaneOf(alu.b, alu.pm, k)
            IN  DifferenceInRange(y, x, alu.op = EX_OP_SUBS, alu.pm) =>
                    LaneOf(alu.res, alu.pm, k) =
                        LaneOf(SubOf(alu.a, alu.b, alu.pm), alu.pm, k)

\* What the code does keep: SUB computes b - a, SUBS and SUBSU compute a - b,
\* so they agree with SUB of the operands swapped.
SubsIsSubSwapped ==
    Applied({EX_OP_SUBS, EX_OP_SUBSU}) =>
        \A k \in LaneIndices(alu.pm) :
            LET x == LaneOf(alu.a, alu.pm, k)
                y == LaneOf(alu.b, alu.pm, k)
            IN  DifferenceInRange(x, y, alu.op = EX_OP_SUBS, alu.pm) =>
                    LaneOf(alu.res, alu.pm, k) =
                        LaneOf(SubOf(alu.b, alu.a, alu.pm), alu.pm, k)

\* subs(1, 0) at 32 bits has returned 1, where sub(1, 0) is 0 - 1.
SubsOppositeOfSub ==
    /\ Applied({EX_OP_SUBS})
    /\ alu.pm = 0
    /\ alu.a = <<0, 1>> /\ alu.b = ZeroW
    /\ alu.res = <<0, 1>>
    /\ SubOf(alu.a, alu.b, alu.pm) = OnesW

----------------------------------------------------------------------------
(* Lane independence of the packed divisions (stated for SpecAlu).         *)

\* The word w with lane j replaced by the value v of the lane's width.
WithLane(w, pm, j, v) ==
    IF pm = PACKED_HALF_WORD
    THEN [i \in 1..2 |-> IF i = 2 - j THEN v ELSE w[i]]
    ELSE LET B(k) == IF k = j THEN v ELSE ByteOf(w, k)
         IN  <<B(3) * 256 + B(2), B(1) * 256 + B(0)>>

\* Lane values tried in the lane that changes: zero, small ones, all ones.
OtherLaneValues(pm) == {0, 1, 3, Lo(LaneOnes(pm))}

\* The EX switch for the applied operation on a and b.
AppliedTo(a, b) ==
    Ex([Decode0 EXCEPT !.ex_op = alu.op, !.packed_mode = alu.pm], a, b, alu.c)

PackedDivisionApplied ==
    /\ Applied({EX_OP_DIV, EX_OP_DIVU, EX_OP_REM, EX_OP_REMU})
    /\ alu.pm \in {PACKED_BYTE, PACKED_HALF_WORD}
    /\ ~alu.fault

\* Lane k of the result is the same when lane j of the operands is x and y.
SameLaneWhenChanged(k, j, x, y) ==
    LaneOf(AppliedTo(WithLane(alu.a, alu.pm, j, x), WithLane(alu.b, alu.pm, j, y)),
           alu.pm, k) = LaneOf(alu.res, alu.pm, k)

\* C28: in packed DIV, DIVU, REM and REMU every result lane depends only on
\* the same lane of the operands: changing the operands of another lane,
\* including to a zero divisor, never changes it.
C28_Original ==
    PackedDivisionApplied =>
        \A k, j \in LaneIndices(alu.pm) :
            \A x, y \in OtherLaneValues(alu.pm) :
                k # j => SameLaneWhenChanged(k, j, x, y)

\* What the code does keep: DIV, REM and REMU are lane independent, and so
\* is DIVU for the lanes below the changed one, and for the lanes above it
\* when its divisor is zero neither before nor after the change.
LanesIndependentButDivuZero ==
    PackedDivisionApplied =>
        \A k, j \in LaneIndices(alu.pm) :
            \A x, y \in OtherLaneValues(alu.pm) :
                /\ k # j
                /\ \/ alu.op # EX_OP_DIVU
                   \/ k < j
                   \/ y # 0 /\ LaneOf(alu.b, alu.pm, j) # ZeroW
                => SameLaneWhenChanged(k, j, x, y)

\* divu16x2(0x00040006, 0x00020000): the upper lane is 4 / 2, and holds
\* 0xffff because the divisor of the lower lane is zero.
DivuZeroLaneSpills ==
    /\ PackedDivisionApplied
    /\ alu.op = EX_OP_DIVU /\ alu.pm = PACKED_HALF_WORD
    /\ alu.a = <<4, 6>> /\ alu.b = <<2, 0>>
    /\ alu.res = OnesW
    /\ AppliedTo(alu.a, WithLane(alu.b, alu.pm, 0, 3)) = <<2, 2>>

----------------------------------------------------------------------------
(* Vector register 0.                                                      *)

\* A lane of a vector instruction whose destination is V0 has gone through
\* WB with a non-zero value to write.
LaneWroteBackToV0 ==
    /\ phase \in {"lanes", "tail"}
    /\ LanesOfInstruction >= 1
    /\ decode.dst_reg.is_vector /\ decode.dst_reg.no = REG_Z
    /\ lane.fault = "none"
    /\ (IF decode.mem_op # MEM_OP_NONE THEN lane.mem_result ELSE lane.ex_result)
          # ZeroW

\* C29: the write-back to vector register 0 is suppressed like the one to
\* scalar R0, so every element of V0 is 0 in every reachable state.
C29_V0StaysZero ==
    \A i \in 0..(NUM_VECTOR_ELEMENTS - 1) : VGet(m_vregs, REG_Z, i) = ZeroW

\* ldw v0,[r2,#0] has loaded 9 in its lanes and V0 is still all zero.
C29_Witness ==
    /\ LaneWroteBackToV0
    /\ decode.mem_op = MEM_OP_LOAD32
    /\ lane.mem_result = <<0, 9>>
    /\ vec_idx >= 2
    /\ \A x \in DOMAIN m_vregs : x[1] # REG_Z

----------------------------------------------------------------------------
(* Register and vector element indices.                                    *)

ElementIndices == 0..(NUM_VECTOR_ELEMENTS - 1)
RegisterIndices == 0..(NUM_REGS - 1)

\* A lane of the decoded instruction is about to run or has run.
InVectorLoop == phase \in {"lanes", "tail", "fault"}

\* C30: every vector element index the interpreter uses is below N = 16, for
\* any VL (above N or odd too) and any vector mode: the lane index of
\* operands B and C and of the destination, the folding index of operand A;
\* and every scalar register index is within 0..32.
C30_IndicesInRange ==
    /\ phase = "lanes" =>
          /\ vec_idx \in ElementIndices
          /\ decode.src_reg_a.is_vector =>
                vector_idx_a(vector, vec_idx) \in ElementIndices
    /\ InVectorLoop /\ LanesOfInstruction >= 1 /\ decode.src_reg_a.is_vector =>
          lane.vector_idx_a \in ElementIndices
    /\ InVectorLoop =>
          /\ \A i \in 1..Len(wb_lanes) : wb_lanes[i] \in ElementIndices
          /\ decode.src_reg_a.no \in RegisterIndices
          /\ decode.src_reg_b.no \in RegisterIndices
          /\ decode.src_reg_c.no \in RegisterIndices
          /\ decode.dst_reg.no \in RegisterIndices
    /\ \A x \in DOMAIN m_vregs : x[2] \in ElementIndices
    /\ DOMAIN m_regs = RegisterIndices

\* A folding add with VL above N: its eighth lane has read element 15 of
\* operand A and written element 7.
C30_Witness ==
    /\ phase = "tail"
    /\ vector.is_vector_op /\ vector.folding
    /\ ~(Hi(m_regs[REG_VL]) = 0 /\ Lo(m_regs[REG_VL]) <= NUM_VECTOR_ELEMENTS)
    /\ decode.src_reg_a.is_vector
    /\ vector.vector_len = 8
    /\ lane.vector_idx_a = 15
    /\ wb_lanes = <<0, 1, 2, 3, 4, 5, 6, 7>>

====
